---- MODULE Spec2Model ----
(***************************************************************************)
(* USM Core: the template and instance registries, the orchestrator        *)
(* (UsmCore) and the HTTP handlers that share the registries with it, the  *)
(* two reader/writer locks, the config collaborator's file and the event   *)
(* bus, as a state machine of concurrently running requests.               *)
(***************************************************************************)
EXTENDS Integers, Sequences, FiniteSets, TLC

\* Number of requests issued in one behaviour.
MaxOps == 2
\* Number of requests that can be in flight at the same time.
MaxTasks == 2
\* The process monitor hands out PIDs 1..MaxPid.
MaxPid == 2

Tasks == 1..MaxTasks
Pids == 1..MaxPid

\* Option<T>: None is the empty sequence, Some(x) the one-element sequence.
None == <<>>
Some(x) == <<x>>
IsSome(o) == o # <<>>
Unwrap(o) == o[1]

InstanceIds == {"a", "b"}
TemplateIds == {"T", "U"}
PortInputs == {None, Some(9000), Some(9001)}

Stopped == "stopped"
Running == "running"

\* The templates a request or a config file can carry.  stop_command is
\* Some("stop {pid}") or None; the other fields do not steer any operation.
TemplateInputs ==
    { [id |-> "T", default_port |-> 9000, supports_multiple |-> FALSE,
       stop_command |-> Some("stop")],
      [id |-> "U", default_port |-> 9001, supports_multiple |-> TRUE,
       stop_command |-> None],
      [id |-> "T", default_port |-> 9001, supports_multiple |-> TRUE,
       stop_command |-> None] }

\* InstanceConfig values a request can carry ("" is the empty identifier).
InstanceConfigs ==
    [instance_id : InstanceIds \cup {""}, template_id : TemplateIds, port : PortInputs]

VARIABLES
    templates,   \* TemplateRegistry.templates: id -> ServiceTemplate
    instances,   \* InstanceRegistry.instances: id -> ServiceInstance
    tlock,       \* RwLock<TemplateRegistry>: [w, r, q]
    ilock,       \* RwLock<InstanceRegistry>: [w, r, q]
    disk,        \* the config file: [templates, instances]
    events,      \* every event handed to EventBus::send, in order
    task,        \* the requests in flight: task -> its frame
    opsLeft,     \* requests still to be issued
    now,         \* the clock read by Utc::now(): it advances with every request
    sys,         \* the operating system under the process monitor
    mcall,       \* the process monitor's call in progress
    bus          \* the broadcast channel inside the EventBus

\* The orchestrator's state, and the state of the collaborators that are
\* modelled on their own.
coreVars == <<templates, instances, tlock, ilock, disk, events, task, opsLeft, now>>
envVars == <<sys, mcall, bus>>
vars == <<coreVars, envVars>>

(***************************************************************************)
(* tokio::sync::RwLock: fair, FIFO, write-preferring.  w is the writer     *)
(* (0 when none), r the set of readers, q the queue of waiting requests.   *)
(***************************************************************************)
FreeLock == [w |-> 0, r |-> {}, q |-> <<>>]

CanGrant(l, mode) ==
    IF mode = "r" THEN l.w = 0 ELSE l.w = 0 /\ l.r = {}

Grant(l, p, mode) ==
    IF mode = "r" THEN [l EXCEPT !.r = @ \cup {p}] ELSE [l EXCEPT !.w = p]

\* A request is granted at once only when nobody is queued before it.
Acquire(l, p, mode) ==
    IF l.q = <<>> /\ CanGrant(l, mode)
    THEN Grant(l, p, mode)
    ELSE [l EXCEPT !.q = Append(@, [p |-> p, mode |-> mode])]

RECURSIVE Drain(_)
Drain(l) ==
    IF l.q = <<>> THEN l
    ELSE LET h == Head(l.q) IN
         IF CanGrant(l, h.mode)
         THEN Drain([Grant(l, h.p, h.mode) EXCEPT !.q = Tail(l.q)])
         ELSE l

\* Dropping a guard hands the lock to the waiters at the head of the queue.
Release(l, p) ==
    Drain([l EXCEPT !.w = IF @ = p THEN 0 ELSE @, !.r = @ \ {p}])

HoldsRead(l, p) == p \in l.r
HoldsWrite(l, p) == l.w = p
Queued(l, p) == \E i \in 1..Len(l.q) : l.q[i].p = p

(***************************************************************************)
(* ServiceInstance::from_config and the registries.                        *)
(***************************************************************************)
\* A from_config that accepts an empty template identifier.
FromConfigNoTemplateCheck(config, t) ==
    IF config.instance_id = ""
    THEN [ok |-> FALSE]
    ELSE [ok |-> TRUE,
          inst |-> [id |-> config.instance_id,
                    template_id |-> config.template_id,
                    port |-> IF IsSome(config.port) THEN Unwrap(config.port) ELSE 0,
                    tags |-> config.tags,
                    status |-> Stopped,
                    pid |-> None,
                    started_at |-> None,
                    created_at |-> t,
                    created_via |-> "api"]]

\* [ok, inst]: the instance built from an InstanceConfig at time t.
FromConfig(config, t) ==
    IF config.instance_id = "" \/ config.template_id = ""
    THEN [ok |-> FALSE]
    ELSE [ok |-> TRUE,
          inst |-> [id |-> config.instance_id,
                    template_id |-> config.template_id,
                    port |-> IF IsSome(config.port) THEN Unwrap(config.port) ELSE 0,
                    tags |-> config.tags,
                    status |-> Stopped,
                    pid |-> None,
                    started_at |-> None,
                    created_at |-> t,
                    created_via |-> "api"]]

FindByPort(reg, port) == {i \in DOMAIN reg : reg[i].port = port}

HasInstancesForTemplate(reg, tid) == \E i \in DOMAIN reg : reg[i].template_id = tid

\* f with key k bound to v / with key k removed.
Put(f, k, v) == [x \in DOMAIN f \cup {k} |-> IF x = k THEN v ELSE f[x]]
Del(f, k) == [x \in DOMAIN f \ {k} |-> f[x]]

\* add without the port-conflict test.
RegistryAddNoPortCheck(reg, inst) ==
    IF inst.id \in DOMAIN reg THEN [ok |-> FALSE, reg |-> reg]
    ELSE [ok |-> TRUE, reg |-> Put(reg, inst.id, inst)]

\* An add that replaces the instance stored under the identifier.
RegistryAddOverwrite(reg, inst) ==
    IF FindByPort(Del(reg, inst.id), inst.port) # {} THEN [ok |-> FALSE, reg |-> reg]
    ELSE [ok |-> TRUE, reg |-> Put(reg, inst.id, inst)]

\* InstanceRegistry::add: [ok, reg].
RegistryAdd(reg, inst) ==
    IF inst.id \in DOMAIN reg THEN [ok |-> FALSE, reg |-> reg]
    ELSE IF FindByPort(reg, inst.port) # {} THEN [ok |-> FALSE, reg |-> reg]
    ELSE [ok |-> TRUE, reg |-> Put(reg, inst.id, inst)]

\* InstanceRegistry::remove: [ok, reg].
RegistryRemove(reg, id) ==
    IF id \notin DOMAIN reg THEN [ok |-> FALSE, reg |-> reg]
    ELSE [ok |-> TRUE, reg |-> Del(reg, id)]

\* A register that replaces the template stored under the identifier.
TemplateRegisterOverwrite(reg, template) ==
    [ok |-> TRUE, reg |-> Put(reg, template.id, template)]

\* TemplateRegistry::register: [ok, reg].
TemplateRegister(reg, template) ==
    IF template.id \in DOMAIN reg THEN [ok |-> FALSE, reg |-> reg]
    ELSE [ok |-> TRUE, reg |-> Put(reg, template.id, template)]

\* TemplateRegistry::remove: [ok, reg].
TemplateRemove(reg, id) ==
    IF id \notin DOMAIN reg THEN [ok |-> FALSE, reg |-> reg]
    ELSE [ok |-> TRUE, reg |-> Del(reg, id)]

\* TemplateRegistry::get: Option<ServiceTemplate>.
TemplateGet(reg, id) == IF id \in DOMAIN reg THEN Some(reg[id]) ELSE None

(***************************************************************************)
(* The config file and ConfigManager::load / save_config.                  *)
(***************************************************************************)
\* TemplateConfig / InstanceConfigFile: what the file keeps of a value.
TemplateToFile(t) ==
    [default_port |-> t.default_port, supports_multiple |-> t.supports_multiple,
     stop_command |-> t.stop_command]

TemplateFromFile(id, tc) ==
    [id |-> id, default_port |-> tc.default_port,
     supports_multiple |-> tc.supports_multiple, stop_command |-> tc.stop_command]

InstanceToFile(i) ==
    [template |-> i.template_id, port |-> Some(i.port), tags |-> i.tags,
     created_at |-> Some(i.created_at), created_via |-> Some(i.created_via)]

\* An instance entry as a user writes it in the file.
TaggedEntry(template, port, tags) ==
    [template |-> template, port |-> port, tags |-> tags,
     created_at |-> None, created_via |-> None]

Entry(template, port) == TaggedEntry(template, port, {})

Empty == [x \in {} |-> x]

\* The config files UsmCore::new is started on.
ConfigFiles ==
    LET T == TemplateToFile(CHOOSE t \in TemplateInputs : t.id = "T" /\ ~t.supports_multiple)
        U == TemplateToFile(CHOOSE t \in TemplateInputs : t.id = "U")
    IN { [templates |-> Put(Put(Empty, "T", T), "U", U), instances |-> Empty],
         [templates |-> Put(Put(Empty, "T", T), "U", U),
          instances |-> Put(Empty, "a", Entry("U", None))],
         [templates |-> Put(Empty, "T", T),
          instances |-> Put(Put(Empty, "a", Entry("T", Some(9000))), "b", Entry("T", Some(9001)))],
         [templates |-> Put(Empty, "U", U),
          instances |-> Put(Put(Empty, "a", Entry("U", Some(9001))), "b", Entry("U", None))],
         [templates |-> Put(Empty, "T", T),
          instances |-> Put(Empty, "a", Entry("U", None))] }

\* The template loop of load: every entry of the file is registered.
LoadTemplates(file) ==
    [id \in DOMAIN file.templates |-> TemplateFromFile(id, file.templates[id])]

\* The instance loop of load over the entries `todo`, at time t: [ok, reg].
RECURSIVE LoadInstances(_, _, _, _, _)
LoadInstances(file, tmpls, todo, reg, t) ==
    IF todo = {} THEN [ok |-> TRUE, reg |-> reg]
    ELSE LET id == CHOOSE x \in todo : TRUE
             ic == file.instances[id]
             template == TemplateGet(tmpls, ic.template)
         IN IF ~IsSome(template) THEN [ok |-> FALSE, reg |-> reg]
            ELSE LET port == IF IsSome(ic.port) THEN Unwrap(ic.port)
                             ELSE Unwrap(template).default_port
                     fc == FromConfig([instance_id |-> id, template_id |-> ic.template,
                                       port |-> Some(port), tags |-> ic.tags], t)
                 IN IF ~fc.ok THEN [ok |-> FALSE, reg |-> reg]
                    ELSE LET r == RegistryAdd(reg, fc.inst)
                         IN IF ~r.ok THEN [ok |-> FALSE, reg |-> reg]
                            ELSE LoadInstances(file, tmpls, todo \ {id}, r.reg, t)

\* ConfigManager::load at time t: [ok, templates, instances].
LoadAt(file, t) ==
    LET tmpls == LoadTemplates(file)
        r == LoadInstances(file, tmpls, DOMAIN file.instances, Empty, t)
    IN [ok |-> r.ok, templates |-> tmpls, instances |-> r.reg]

\* The load UsmCore::new makes, at time 0.
Load(file) == LoadAt(file, 0)

\* save_config's rewrite of one section of the file content it read.
SaveTemplatesInto(file, reg) ==
    [file EXCEPT !.templates = [id \in DOMAIN reg |-> TemplateToFile(reg[id])]]

SaveInstancesInto(file, reg) ==
    [file EXCEPT !.instances = [id \in DOMAIN reg |-> InstanceToFile(reg[id])]]

(***************************************************************************)
(* Requests.  A frame is one request in flight: pc is the statement it is  *)
(* at, op the operation that was called, res the result of the last call.  *)
(***************************************************************************)
NoTemplate == None
NoInstance == None

IdleFrame(res) ==
    [pc |-> "idle", op |-> "none", id |-> "", tid |-> "", port |-> None, tags |-> {},
     tmpl |-> NoTemplate, inst |-> NoInstance, buf |-> None, mon |-> "none",
     calls |-> <<>>, todo |-> <<>>, results |-> <<>>, snap |-> None, from |-> 0,
     fwd |-> 0, status |-> "", pid |-> None, res |-> res]

NewFrame(op, pc) == [IdleFrame("none") EXCEPT !.op = op, !.pc = pc]

\* The frame's record of its monitor calls: a call is entered with its
\* argument, and answered with "ok" or "err" when it returns.
Invoke(calls, name, arg) ==
    Append(calls, [name |-> name, arg |-> arg, res |-> "pending"])

Answer(calls, res) ==
    IF calls # <<>> /\ calls[Len(calls)].res = "pending"
    THEN [calls EXCEPT ![Len(calls)].res = IF res = "ok" THEN "ok" ELSE "err"]
    ELSE calls

\* A stop that ignores the template's stop_command.
StopCallAlwaysKill(template) == "kill_process"

\* The stop call a template asks for: its stop_command, or else a kill.
StopCall(template) ==
    IF IsSome(template) /\ IsSome(Unwrap(template).stop_command)
    THEN "execute_command" ELSE "kill_process"

\* ServiceEvent values (one record shape for all kinds).
Event(type, iid, tid, status, pid) ==
    [type |-> type, instance_id |-> iid, template_id |-> tid, status |-> status,
     pid |-> pid]

TemplateRegistered(tid) == Event("template_registered", "", tid, "", None)
TemplateRemoved(tid) == Event("template_removed", "", tid, "", None)
InstanceCreated(iid, tid) == Event("instance_created", iid, tid, "", None)
InstanceRemoved(iid) == Event("instance_removed", iid, "", "", None)
StatusChanged(iid, status, pid) == Event("status_changed", iid, "", status, pid)

(***************************************************************************)
(* The collaborators at rest.  The process monitor works on the operating  *)
(* system: the processes that are alive, the PID capture file in the       *)
(* temporary directory, the wrapper shells that have not written it yet,   *)
(* and the process listening on the service's port.  The event bus wraps   *)
(* a broadcast channel: the retained events (buf), the number of events    *)
(* stored so far (tail), each receiver's next position (rx), the event and *)
(* the return value of the last send, what the last recv returned, and     *)
(* the number of sends still to come (left); and, as history, every event  *)
(* stored (log), the position at which each receiver subscribed (since)    *)
(* and what each receiver's recv calls have returned (got).                *)
(***************************************************************************)
SysInit(os) ==
    [os |-> os, running |-> {}, pidfile |-> None, writers |-> {},
     listener |-> None, next |-> 1]

McallIdle ==
    [pc |-> "idle", op |-> "none", port |-> None, n |-> 0, pid |-> 0, by |-> 0,
     found |-> None, target |-> 0, sigs |-> <<>>, ret |-> None, how |-> "none"]

BusIdle ==
    [buf |-> <<>>, tail |-> 0, rx |-> Empty, sent |-> None, ret |-> None,
     recv |-> None, left |-> 0, log |-> <<>>, since |-> Empty, got |-> Empty]

EnvInit ==
    /\ sys = SysInit("macos")
    /\ mcall = McallIdle
    /\ bus = BusIdle

\* UsmCore::new: the registries ConfigManager::load returns for the file.
Init ==
    /\ \E file \in ConfigFiles :
        /\ Load(file).ok
        /\ templates = Load(file).templates
        /\ instances = Load(file).instances
        /\ now = 0
        /\ disk = file
        /\ tlock = FreeLock
        /\ ilock = FreeLock
        /\ events = <<>>
        /\ task = [p \in Tasks |-> IdleFrame("none")]
        /\ opsLeft = MaxOps
    /\ EnvInit

\* A function returns: its guards are dropped and the frame is freed; the
\* task keeps the call and its result until it serves the next request.
Return(p, res) ==
    /\ task' = [task EXCEPT ![p] = [IdleFrame(res) EXCEPT !.op = task[p].op,
                                                          !.id = task[p].id]]
    /\ tlock' = Release(tlock, p)
    /\ ilock' = Release(ilock, p)

\* A request arrives and is served by the first free task.
CanBegin(p) ==
    /\ task[p].pc = "idle"
    /\ opsLeft > 0
    /\ \A q \in Tasks : q < p => task[q].pc # "idle"

\* A call of an operation: the frame is set up and the request is counted.
Call(p, frame) ==
    /\ CanBegin(p)
    /\ task' = [task EXCEPT ![p] = frame]
    /\ opsLeft' = opsLeft - 1
    /\ now' = now + 1

Goto(p, pc) == task' = [task EXCEPT ![p].pc = pc]

(***************************************************************************)
(* ConfigManager::save_templates / save_instances, as called by the        *)
(* orchestrator with the registry guard held, and the publication that     *)
(* follows it.                                                             *)
(***************************************************************************)
TemplateOps == {"register_template", "remove_template"}

\* save_config reads the file; the read or the parse can fail.
SaveRead(p) ==
    /\ task[p].pc = "save_read"
    /\ \/ /\ task' = [task EXCEPT ![p].buf = Some(disk), ![p].pc = "save_write"]
          /\ UNCHANGED <<tlock, ilock>>
       \/ Return(p, "err_persist")
    /\ UNCHANGED <<templates, instances, disk, events, opsLeft, now, envVars>>

\* save_config replaces the section it was given and writes the file back.
SaveWrite(p) ==
    /\ task[p].pc = "save_write"
    /\ \/ /\ disk' = IF task[p].op \in TemplateOps
                     THEN SaveTemplatesInto(Unwrap(task[p].buf), templates)
                     ELSE SaveInstancesInto(Unwrap(task[p].buf), instances)
          /\ task' = [task EXCEPT ![p].buf = None, ![p].pc = "publish"]
          /\ UNCHANGED <<tlock, ilock>>
       \/ /\ Return(p, "err_persist")
          /\ UNCHANGED disk
    /\ UNCHANGED <<templates, instances, events, opsLeft, now, envVars>>

\* The event an orchestrator operation broadcasts after the save.
EventOf(f) ==
    CASE f.op = "register_template" -> TemplateRegistered(f.tid)
      [] f.op = "remove_template" -> TemplateRemoved(f.tid)
      [] f.op = "create_instance" -> InstanceCreated(f.id, f.tid)
      [] f.op = "remove_instance" -> InstanceRemoved(f.id)

Publish(p) ==
    /\ task[p].pc = "publish"
    /\ events' = Append(events, EventOf(task[p]))
    /\ Return(p, "ok")
    /\ UNCHANGED <<templates, instances, disk, opsLeft, now, envVars>>

(***************************************************************************)
(* UsmCore::register_template and UsmCore::remove_template.                *)
(***************************************************************************)
BeginRegisterTemplate(p) ==
    /\ \E t \in TemplateInputs :
          Call(p, [NewFrame("register_template", "rt_register")
                      EXCEPT !.tid = t.id, !.tmpl = Some(t)])
    /\ tlock' = Acquire(tlock, p, "w")
    /\ UNCHANGED <<templates, instances, ilock, disk, events, envVars>>

RegisterTemplate(p) ==
    /\ task[p].pc = "rt_register"
    /\ HoldsWrite(tlock, p)
    /\ LET r == TemplateRegister(templates, Unwrap(task[p].tmpl))
       IN IF r.ok
          THEN /\ templates' = r.reg
               /\ Goto(p, "save_read")
               /\ UNCHANGED <<tlock, ilock>>
          ELSE /\ Return(p, "err_conflict")
               /\ UNCHANGED templates
    /\ UNCHANGED <<instances, disk, events, opsLeft, now, envVars>>

BeginRemoveTemplate(p) ==
    /\ \E tid \in TemplateIds :
          Call(p, [NewFrame("remove_template", "rmt_check") EXCEPT !.tid = tid])
    /\ ilock' = Acquire(ilock, p, "r")
    /\ UNCHANGED <<templates, instances, tlock, disk, events, envVars>>

\* The check for referencing instances, under the instance read guard only.
RemoveTemplateCheck(p) ==
    /\ task[p].pc = "rmt_check"
    /\ HoldsRead(ilock, p)
    /\ IF HasInstancesForTemplate(instances, task[p].tid)
       THEN Return(p, "err_conflict")
       ELSE /\ ilock' = Release(ilock, p)
            /\ tlock' = Acquire(tlock, p, "w")
            /\ Goto(p, "rmt_remove")
    /\ UNCHANGED <<templates, instances, disk, events, opsLeft, now, envVars>>

RemoveTemplate(p) ==
    /\ task[p].pc = "rmt_remove"
    /\ HoldsWrite(tlock, p)
    /\ LET r == TemplateRemove(templates, task[p].tid)
       IN IF r.ok
          THEN /\ templates' = r.reg
               /\ Goto(p, "save_read")
               /\ UNCHANGED <<tlock, ilock>>
          ELSE /\ Return(p, "err_not_found")
               /\ UNCHANGED templates
    /\ UNCHANGED <<instances, disk, events, opsLeft, now, envVars>>

(***************************************************************************)
(* UsmCore::create_instance.                                               *)
(***************************************************************************)
BeginCreateInstance(p) ==
    /\ \E c \in InstanceConfigs :
          Call(p, [NewFrame("create_instance", "ci_template")
                      EXCEPT !.id = c.instance_id, !.tid = c.template_id,
                             !.port = c.port])
    /\ tlock' = Acquire(tlock, p, "r")
    /\ UNCHANGED <<templates, instances, ilock, disk, events, envVars>>

\* drop(templates); from_config; instances.write(), once the checks passed.
\* il is the instance lock as the checks left it.
CreateBuild(p, il) ==
    LET fc == FromConfig([instance_id |-> task[p].id, template_id |-> task[p].tid,
                          port |-> task[p].port, tags |-> task[p].tags], now)
    IN IF fc.ok
       THEN /\ tlock' = Release(tlock, p)
            /\ ilock' = Acquire(il, p, "w")
            /\ task' = [task EXCEPT ![p].inst = Some(fc.inst), ![p].pc = "ci_add"]
       ELSE Return(p, "err_validation")

\* The template lookup, under the template read guard.
CreateTemplate(p) ==
    /\ task[p].pc = "ci_template"
    /\ HoldsRead(tlock, p)
    /\ LET template == TemplateGet(templates, task[p].tid)
       IN IF ~IsSome(template)
          THEN Return(p, "err_not_found")
          ELSE IF ~Unwrap(template).supports_multiple
          THEN /\ ilock' = Acquire(ilock, p, "r")
               /\ Goto(p, "ci_multi")
               /\ UNCHANGED tlock
          ELSE CreateBuild(p, ilock)
    /\ UNCHANGED <<templates, instances, disk, events, opsLeft, now, envVars>>

\* A create_instance that skips the single-instance check.
CreateMultiNoCheck(p) ==
    /\ task[p].pc = "ci_multi"
    /\ HoldsRead(ilock, p)
    /\ CreateBuild(p, Release(ilock, p))
    /\ UNCHANGED <<templates, instances, disk, events, opsLeft, now, envVars>>

\* The single-instance check, under the instance read guard, which is
\* dropped at the end of the block.
CreateMulti(p) ==
    /\ task[p].pc = "ci_multi"
    /\ HoldsRead(ilock, p)
    /\ IF HasInstancesForTemplate(instances, task[p].tid)
       THEN Return(p, "err_conflict")
       ELSE CreateBuild(p, Release(ilock, p))
    /\ UNCHANGED <<templates, instances, disk, events, opsLeft, now, envVars>>

\* instances.add(instance), under the instance write guard.
CreateAdd(p) ==
    /\ task[p].pc = "ci_add"
    /\ HoldsWrite(ilock, p)
    /\ LET r == RegistryAdd(instances, Unwrap(task[p].inst))
       IN IF r.ok
          THEN /\ instances' = r.reg
               /\ Goto(p, "save_read")
               /\ UNCHANGED <<tlock, ilock>>
          ELSE /\ Return(p, "err_conflict")
               /\ UNCHANGED instances
    /\ UNCHANGED <<templates, disk, events, opsLeft, now, envVars>>

(***************************************************************************)
(* UsmCore::start_instance, stop_instance, restart_instance and            *)
(* remove_instance.  stop_instance and start_instance are also the two     *)
(* halves of a restart, and stop_instance the first step of a removal.     *)
(* The monitor's calls block the caller: mon names the call in flight.     *)
(***************************************************************************)
SetStatus(reg, id, status, pid, started_at) ==
    [reg EXCEPT ![id] = [@ EXCEPT !.status = status, !.pid = pid,
                                  !.started_at = started_at]]

BulkOps == {"start_by_tags", "stop_by_tags"}

\* results.push(..): the call made for the current id has returned res to
\* the loop of a bulk operation, its guards dropped.
BulkPush(p, res) ==
    /\ tlock' = Release(tlock, p)
    /\ ilock' = Release(ilock, p)
    /\ task' = [task EXCEPT ![p].pc = "bulk_loop", ![p].mon = "none",
                            ![p].pid = None,
                            ![p].calls = Answer(@, res),
                            ![p].results = Append(@, [id |-> task[p].id, res |-> res])]

\* start_instance returns res to the operation that called it.
StartReturns(p, res) ==
    IF task[p].op \in BulkOps THEN BulkPush(p, res) ELSE Return(p, res)

\* remove_instance giving up when its stop attempt failed.
StopReturnsPropagates(p, res) ==
    CASE task[p].op = "remove_instance" /\ res = "ok" ->
            /\ tlock' = Release(tlock, p)
            /\ ilock' = Acquire(Release(ilock, p), p, "w")
            /\ task' = [task EXCEPT ![p].pc = "ri_remove", ![p].mon = "none",
                                    ![p].calls = Answer(@, res)]
      [] task[p].op = "restart_instance" /\ res = "ok" ->
            /\ tlock' = Release(tlock, p)
            /\ ilock' = Release(ilock, p)
            /\ task' = [task EXCEPT ![p].pc = "restart_sleep", ![p].mon = "none",
                                    ![p].calls = Answer(@, res)]
      [] OTHER -> Return(p, res)

\* stop_instance returns res to the operation that called it.
StopReturns(p, res) ==
    CASE task[p].op \in BulkOps -> BulkPush(p, res)
      [] task[p].op = "remove_instance" ->
            \* the result is discarded (.ok()), then instances.write()
            /\ tlock' = Release(tlock, p)
            /\ ilock' = Acquire(Release(ilock, p), p, "w")
            /\ task' = [task EXCEPT ![p].pc = "ri_remove", ![p].mon = "none",
                                    ![p].calls = Answer(@, res)]
      [] task[p].op = "restart_instance" /\ res = "ok" ->
            /\ tlock' = Release(tlock, p)
            /\ ilock' = Release(ilock, p)
            /\ task' = [task EXCEPT ![p].pc = "restart_sleep", ![p].mon = "none",
                                    ![p].calls = Answer(@, res)]
      [] OTHER -> Return(p, res)

BeginStopInstance(p) ==
    /\ \E id \in InstanceIds :
          Call(p, [NewFrame("stop_instance", "stop_get") EXCEPT !.id = id])
    /\ ilock' = Acquire(ilock, p, "w")
    /\ UNCHANGED <<templates, instances, tlock, disk, events, envVars>>

BeginRestartInstance(p) ==
    /\ \E id \in InstanceIds :
          Call(p, [NewFrame("restart_instance", "stop_get") EXCEPT !.id = id])
    /\ ilock' = Acquire(ilock, p, "w")
    /\ UNCHANGED <<templates, instances, tlock, disk, events, envVars>>

BeginRemoveInstance(p) ==
    /\ \E id \in InstanceIds :
          Call(p, [NewFrame("remove_instance", "stop_get") EXCEPT !.id = id])
    /\ ilock' = Acquire(ilock, p, "w")
    /\ UNCHANGED <<templates, instances, tlock, disk, events, envVars>>

\* stop_instance without the early return for an instance that is not Running.
StopGetNoStatusCheck(p) ==
    /\ task[p].pc = "stop_get"
    /\ HoldsWrite(ilock, p)
    /\ IF task[p].id \notin DOMAIN instances
       THEN StopReturns(p, "err_not_found")
       ELSE /\ tlock' = Acquire(tlock, p, "r")
            /\ Goto(p, "stop_template")
            /\ UNCHANGED ilock
    /\ UNCHANGED <<templates, instances, disk, events, opsLeft, now, envVars>>

\* get_mut and the status test, under the instance write guard.
StopGet(p) ==
    /\ task[p].pc = "stop_get"
    /\ HoldsWrite(ilock, p)
    /\ IF task[p].id \notin DOMAIN instances
       THEN StopReturns(p, "err_not_found")
       ELSE IF instances[task[p].id].status # Running
       THEN StopReturns(p, "ok")
       ELSE /\ tlock' = Acquire(tlock, p, "r")
            /\ Goto(p, "stop_template")
            /\ UNCHANGED ilock
    /\ UNCHANGED <<templates, instances, disk, events, opsLeft, now, envVars>>

\* The end of a stop that leaves started_at as it was.
StopFinishKeepStartedAt(p) ==
    /\ instances' = [instances EXCEPT ![task[p].id] =
                        [@ EXCEPT !.status = Stopped, !.pid = None]]
    /\ events' = Append(events, StatusChanged(task[p].id, Stopped, None))
    /\ StopReturns(p, "ok")

\* The state update and the broadcast that end a stop.
StopFinish(p) ==
    /\ instances' = SetStatus(instances, task[p].id, Stopped, None, None)
    /\ events' = Append(events, StatusChanged(task[p].id, Stopped, None))
    /\ StopReturns(p, "ok")

\* A stop that records Stopped without calling the monitor.
StopTemplateSkipMonitor(p) ==
    /\ task[p].pc = "stop_template"
    /\ HoldsRead(tlock, p)
    /\ StopFinish(p)
    /\ UNCHANGED <<templates, disk, opsLeft, now, envVars>>

\* The template lookup and the choice of the monitor call.
StopTemplate(p) ==
    /\ task[p].pc = "stop_template"
    /\ HoldsRead(tlock, p)
    /\ LET template == TemplateGet(templates, instances[task[p].id].template_id)
       IN IF IsSome(instances[task[p].id].pid)
          THEN /\ task' = [task EXCEPT
                     ![p].pc = "stop_monitor",
                     ![p].mon = StopCall(template),
                     ![p].calls = Invoke(@, StopCall(template),
                                         instances[task[p].id].pid)]
               /\ UNCHANGED <<instances, events, tlock, ilock>>
          ELSE StopFinish(p)
    /\ UNCHANGED <<templates, disk, opsLeft, now, envVars>>

\* A stop that records Stopped although the monitor's call failed.
StopMonitorFailMarksStopped(p) ==
    /\ task[p].pc = "stop_monitor"
    /\ \/ StopFinish(p)
       \/ /\ instances' = SetStatus(instances, task[p].id, Stopped, None, None)
          /\ StopReturns(p, "err_process")
          /\ UNCHANGED events
    /\ UNCHANGED <<templates, disk, opsLeft, now, envVars>>

\* execute_command / kill_process returns.
StopMonitor(p) ==
    /\ task[p].pc = "stop_monitor"
    /\ \/ StopFinish(p)
       \/ StopReturns(p, "err_process") /\ UNCHANGED <<instances, events>>
    /\ UNCHANGED <<templates, disk, opsLeft, now, envVars>>

\* The fixed delay of a restart ends; start_instance is called.
RestartWake(p) ==
    /\ task[p].pc = "restart_sleep"
    /\ ilock' = Acquire(ilock, p, "w")
    /\ Goto(p, "start_get")
    /\ UNCHANGED <<templates, instances, tlock, disk, events, opsLeft, now, envVars>>

BeginStartInstance(p) ==
    /\ \E id \in InstanceIds :
          Call(p, [NewFrame("start_instance", "start_get") EXCEPT !.id = id])
    /\ ilock' = Acquire(ilock, p, "w")
    /\ UNCHANGED <<templates, instances, tlock, disk, events, envVars>>

StartGet(p) ==
    /\ task[p].pc = "start_get"
    /\ HoldsWrite(ilock, p)
    /\ IF task[p].id \notin DOMAIN instances
       THEN StartReturns(p, "err_not_found")
       ELSE /\ tlock' = Acquire(tlock, p, "r")
            /\ Goto(p, "start_template")
            /\ UNCHANGED ilock
    /\ UNCHANGED <<templates, instances, disk, events, opsLeft, now, envVars>>

\* start_instance dropping the instance guard before the blocking call.
StartTemplateDropGuard(p) ==
    /\ task[p].pc = "start_template"
    /\ HoldsRead(tlock, p)
    /\ IF IsSome(TemplateGet(templates, instances[task[p].id].template_id))
       THEN /\ task' = [task EXCEPT
                  ![p].pc = "start_monitor", ![p].mon = "start_process",
                  ![p].calls = Invoke(@, "start_process_with_port",
                                      Some(instances[task[p].id].port))]
            /\ ilock' = Release(ilock, p)
            /\ UNCHANGED tlock
       ELSE StartReturns(p, "err_not_found")
    /\ UNCHANGED <<templates, instances, disk, events, opsLeft, now, envVars>>

\* The template lookup; the monitor's start call is entered.
StartTemplate(p) ==
    /\ task[p].pc = "start_template"
    /\ HoldsRead(tlock, p)
    /\ IF IsSome(TemplateGet(templates, instances[task[p].id].template_id))
       THEN /\ task' = [task EXCEPT
                  ![p].pc = "start_monitor", ![p].mon = "start_process",
                  ![p].calls = Invoke(@, "start_process_with_port",
                                      Some(instances[task[p].id].port))]
            /\ UNCHANGED <<tlock, ilock>>
       ELSE StartReturns(p, "err_not_found")
    /\ UNCHANGED <<templates, instances, disk, events, opsLeft, now, envVars>>

\* start_process_with_port returns a PID or fails.
StartMonitor(p) ==
    /\ task[p].pc = "start_monitor"
    /\ \/ /\ \E pid \in Pids :
               task' = [task EXCEPT ![p].pc = "start_update", ![p].mon = "none",
                                    ![p].calls = Answer(@, "ok"),
                                    ![p].pid = Some(pid)]
          /\ UNCHANGED <<tlock, ilock>>
       \/ StartReturns(p, "err_process")
    /\ UNCHANGED <<templates, instances, disk, events, opsLeft, now, envVars>>

\* The end of a start that broadcasts the PID without recording it.
StartUpdateNoPid(p) ==
    /\ task[p].pc = "start_update"
    /\ instances' = [instances EXCEPT ![task[p].id] =
                        [@ EXCEPT !.status = Running, !.started_at = Some(now)]]
    /\ events' = Append(events, StatusChanged(task[p].id, Running, task[p].pid))
    /\ StartReturns(p, "ok")
    /\ UNCHANGED <<templates, disk, opsLeft, now, envVars>>

\* The end of a start that records the transitional status.
StartUpdateStarting(p) ==
    /\ task[p].pc = "start_update"
    /\ instances' = SetStatus(instances, task[p].id, "starting", task[p].pid, Some(now))
    /\ events' = Append(events, StatusChanged(task[p].id, Running, task[p].pid))
    /\ StartReturns(p, "ok")
    /\ UNCHANGED <<templates, disk, opsLeft, now, envVars>>

\* The state update and the broadcast that end a start.
StartUpdate(p) ==
    /\ task[p].pc = "start_update"
    /\ instances' = SetStatus(instances, task[p].id, Running, task[p].pid, Some(now))
    /\ events' = Append(events, StatusChanged(task[p].id, Running, task[p].pid))
    /\ StartReturns(p, "ok")
    /\ UNCHANGED <<templates, disk, opsLeft, now, envVars>>

\* instances.remove(id), under the instance write guard.
RemoveInstance(p) ==
    /\ task[p].pc = "ri_remove"
    /\ HoldsWrite(ilock, p)
    /\ LET r == RegistryRemove(instances, task[p].id)
       IN IF r.ok
          THEN /\ instances' = r.reg
               /\ Goto(p, "save_read")
               /\ UNCHANGED <<tlock, ilock>>
          ELSE /\ Return(p, "err_not_found")
               /\ UNCHANGED instances
    /\ UNCHANGED <<templates, disk, events, opsLeft, now, envVars>>

\* UsmCore::get_instance.
BeginGetInstance(p) ==
    /\ \E id \in InstanceIds :
          Call(p, [NewFrame("get_instance", "get") EXCEPT !.id = id])
    /\ ilock' = Acquire(ilock, p, "r")
    /\ UNCHANGED <<templates, instances, tlock, disk, events, envVars>>

GetInstance(p) ==
    /\ task[p].pc = "get"
    /\ HoldsRead(ilock, p)
    /\ Return(p, IF task[p].id \in DOMAIN instances THEN "ok" ELSE "none")
    /\ UNCHANGED <<templates, instances, disk, events, opsLeft, now, envVars>>

(***************************************************************************)
(* The HTTP handlers (server/mod.rs).  They work on the same registries,   *)
(* locks, monitor and event bus as UsmCore, with their own code; res is    *)
(* the status code of the response.                                        *)
(***************************************************************************)
\* POST /api/templates
BeginHttpCreateTemplate(p) ==
    /\ \E t \in TemplateInputs :
          Call(p, [NewFrame("http_create_template", "hct_register")
                      EXCEPT !.tid = t.id, !.tmpl = Some(t)])
    /\ tlock' = Acquire(tlock, p, "w")
    /\ UNCHANGED <<templates, instances, ilock, disk, events, envVars>>

HttpCreateTemplate(p) ==
    /\ task[p].pc = "hct_register"
    /\ HoldsWrite(tlock, p)
    /\ LET r == TemplateRegister(templates, Unwrap(task[p].tmpl))
       IN /\ templates' = r.reg
          /\ Return(p, IF r.ok THEN "200" ELSE "400")
    /\ UNCHANGED <<instances, disk, events, opsLeft, now, envVars>>

\* POST /api/instances
BeginHttpCreateInstance(p) ==
    /\ \E c \in InstanceConfigs :
          Call(p, [NewFrame("http_create_instance", "hci_template")
                      EXCEPT !.id = c.instance_id, !.tid = c.template_id,
                             !.port = c.port])
    /\ tlock' = Acquire(tlock, p, "r")
    /\ UNCHANGED <<templates, instances, ilock, disk, events, envVars>>

\* The template lookup, the port default and from_config.
HttpCreateInstanceTemplate(p) ==
    /\ task[p].pc = "hci_template"
    /\ HoldsRead(tlock, p)
    /\ LET template == TemplateGet(templates, task[p].tid)
       IN IF ~IsSome(template)
          THEN Return(p, "400")
          ELSE LET port == IF IsSome(task[p].port) THEN Unwrap(task[p].port)
                           ELSE Unwrap(template).default_port
                   fc == FromConfig([instance_id |-> task[p].id,
                                     template_id |-> task[p].tid,
                                     port |-> Some(port), tags |-> task[p].tags], now)
               IN IF fc.ok
                  THEN /\ tlock' = Release(tlock, p)
                       /\ ilock' = Acquire(ilock, p, "w")
                       /\ task' = [task EXCEPT ![p].port = Some(port),
                                               ![p].inst = Some(fc.inst),
                                               ![p].pc = "hci_add"]
                  ELSE Return(p, "400")
    /\ UNCHANGED <<templates, instances, disk, events, opsLeft, now, envVars>>

HttpCreateInstanceAdd(p) ==
    /\ task[p].pc = "hci_add"
    /\ HoldsWrite(ilock, p)
    /\ LET r == RegistryAdd(instances, Unwrap(task[p].inst))
       IN /\ instances' = r.reg
          /\ Return(p, IF r.ok THEN "200" ELSE "409")
    /\ UNCHANGED <<templates, disk, events, opsLeft, now, envVars>>

\* POST /api/instances/:id/start
BeginHttpStart(p) ==
    /\ \E id \in InstanceIds :
          Call(p, [NewFrame("http_start", "hs_get") EXCEPT !.id = id])
    /\ ilock' = Acquire(ilock, p, "w")
    /\ UNCHANGED <<templates, instances, tlock, disk, events, envVars>>

\* A start handler without the early return for a Running instance.
HttpStartGetNoStatusCheck(p) ==
    /\ task[p].pc = "hs_get"
    /\ HoldsWrite(ilock, p)
    /\ IF task[p].id \notin DOMAIN instances
       THEN Return(p, "404")
       ELSE /\ tlock' = Acquire(tlock, p, "r")
            /\ Goto(p, "hs_template")
            /\ UNCHANGED ilock
    /\ UNCHANGED <<templates, instances, disk, events, opsLeft, now, envVars>>

\* get_mut and the status test, under the instance write guard.
HttpStartGet(p) ==
    /\ task[p].pc = "hs_get"
    /\ HoldsWrite(ilock, p)
    /\ IF task[p].id \notin DOMAIN instances
       THEN Return(p, "404")
       ELSE IF instances[task[p].id].status = Running
       THEN Return(p, "200")
       ELSE /\ tlock' = Acquire(tlock, p, "r")
            /\ Goto(p, "hs_template")
            /\ UNCHANGED ilock
    /\ UNCHANGED <<templates, instances, disk, events, opsLeft, now, envVars>>

HttpStartTemplate(p) ==
    /\ task[p].pc = "hs_template"
    /\ HoldsRead(tlock, p)
    /\ IF IsSome(TemplateGet(templates, instances[task[p].id].template_id))
       THEN /\ task' = [task EXCEPT
                  ![p].pc = "hs_monitor", ![p].mon = "start_process",
                  ![p].calls = Invoke(@, "start_process", None)]
            /\ UNCHANGED <<tlock, ilock>>
       ELSE Return(p, "400")
    /\ UNCHANGED <<templates, instances, disk, events, opsLeft, now, envVars>>

HttpStartMonitor(p) ==
    /\ task[p].pc = "hs_monitor"
    /\ \/ /\ \E pid \in Pids :
               task' = [task EXCEPT ![p].pc = "hs_update", ![p].mon = "none",
                                    ![p].calls = Answer(@, "ok"),
                                    ![p].pid = Some(pid)]
          /\ UNCHANGED <<tlock, ilock>>
       \/ Return(p, "500")
    /\ UNCHANGED <<templates, instances, disk, events, opsLeft, now, envVars>>

HttpStartUpdate(p) ==
    /\ task[p].pc = "hs_update"
    /\ instances' = SetStatus(instances, task[p].id, Running, task[p].pid, Some(now))
    /\ events' = Append(events, StatusChanged(task[p].id, Running, task[p].pid))
    /\ Return(p, "200")
    /\ UNCHANGED <<templates, disk, opsLeft, now, envVars>>

\* POST /api/instances/:id/stop
BeginHttpStop(p) ==
    /\ \E id \in InstanceIds :
          Call(p, [NewFrame("http_stop", "hp_get") EXCEPT !.id = id])
    /\ ilock' = Acquire(ilock, p, "w")
    /\ UNCHANGED <<templates, instances, tlock, disk, events, envVars>>

HttpStopGet(p) ==
    /\ task[p].pc = "hp_get"
    /\ HoldsWrite(ilock, p)
    /\ IF task[p].id \notin DOMAIN instances
       THEN Return(p, "404")
       ELSE IF instances[task[p].id].status # Running
       THEN Return(p, "200")
       ELSE /\ tlock' = Acquire(tlock, p, "r")
            /\ Goto(p, "hp_template")
            /\ UNCHANGED ilock
    /\ UNCHANGED <<templates, instances, disk, events, opsLeft, now, envVars>>

HttpStopFinish(p) ==
    /\ instances' = SetStatus(instances, task[p].id, Stopped, None, None)
    /\ events' = Append(events, StatusChanged(task[p].id, Stopped, None))
    /\ Return(p, "200")

HttpStopTemplate(p) ==
    /\ task[p].pc = "hp_template"
    /\ HoldsRead(tlock, p)
    /\ LET template == TemplateGet(templates, instances[task[p].id].template_id)
       IN IF IsSome(instances[task[p].id].pid)
          THEN /\ task' = [task EXCEPT
                     ![p].pc = "hp_monitor",
                     ![p].mon = StopCall(template),
                     ![p].calls = Invoke(@, StopCall(template),
                                         instances[task[p].id].pid)]
               /\ UNCHANGED <<instances, events, tlock, ilock>>
          ELSE HttpStopFinish(p)
    /\ UNCHANGED <<templates, disk, opsLeft, now, envVars>>

HttpStopMonitor(p) ==
    /\ task[p].pc = "hp_monitor"
    /\ \/ HttpStopFinish(p)
       \/ Return(p, "500") /\ UNCHANGED <<instances, events>>
    /\ UNCHANGED <<templates, disk, opsLeft, now, envVars>>

\* POST /api/instances/:id/restart
BeginHttpRestart(p) ==
    /\ \E id \in InstanceIds :
          Call(p, [NewFrame("http_restart", "hr_get") EXCEPT !.id = id])
    /\ ilock' = Acquire(ilock, p, "w")
    /\ UNCHANGED <<templates, instances, tlock, disk, events, envVars>>

HttpRestartGet(p) ==
    /\ task[p].pc = "hr_get"
    /\ HoldsWrite(ilock, p)
    /\ IF task[p].id \notin DOMAIN instances
       THEN Return(p, "404")
       ELSE /\ tlock' = Acquire(tlock, p, "r")
            /\ Goto(p, "hr_template")
            /\ UNCHANGED ilock
    /\ UNCHANGED <<templates, instances, disk, events, opsLeft, now, envVars>>

\* The stop phase ends: status and pid are reset (started_at is not
\* assigned), both guards are dropped and the handler sleeps.
HttpRestartStopped(p, res) ==
    /\ instances' = [instances EXCEPT ![task[p].id] =
                        [@ EXCEPT !.status = Stopped, !.pid = None]]
    /\ tlock' = Release(tlock, p)
    /\ ilock' = Release(ilock, p)
    /\ task' = [task EXCEPT ![p].pc = "hr_sleep", ![p].mon = "none",
                            ![p].calls = Answer(@, res)]

HttpRestartTemplate(p) ==
    /\ task[p].pc = "hr_template"
    /\ HoldsRead(tlock, p)
    /\ LET inst == instances[task[p].id]
           template == TemplateGet(templates, inst.template_id)
       IN IF ~IsSome(template)
          THEN Return(p, "400") /\ UNCHANGED instances
          ELSE IF inst.status # Running
          THEN /\ tlock' = Release(tlock, p)
               /\ ilock' = Release(ilock, p)
               /\ Goto(p, "hr_sleep")
               /\ UNCHANGED instances
          ELSE IF IsSome(inst.pid)
          THEN /\ task' = [task EXCEPT
                     ![p].pc = "hr_stop_monitor",
                     ![p].mon = StopCall(template),
                     ![p].calls = Invoke(@, StopCall(template), inst.pid)]
               /\ UNCHANGED <<instances, tlock, ilock>>
          ELSE HttpRestartStopped(p, "ok")
    /\ UNCHANGED <<templates, disk, events, opsLeft, now, envVars>>

\* execute_command / kill_process returns; its result is discarded (let _).
HttpRestartStopMonitor(p) ==
    /\ task[p].pc = "hr_stop_monitor"
    /\ \E res \in {"ok", "err"} : HttpRestartStopped(p, res)
    /\ UNCHANGED <<templates, disk, events, opsLeft, now, envVars>>

HttpRestartWake(p) ==
    /\ task[p].pc = "hr_sleep"
    /\ ilock' = Acquire(ilock, p, "w")
    /\ Goto(p, "hr_get2")
    /\ UNCHANGED <<templates, instances, tlock, disk, events, opsLeft, now, envVars>>

HttpRestartGet2(p) ==
    /\ task[p].pc = "hr_get2"
    /\ HoldsWrite(ilock, p)
    /\ IF task[p].id \notin DOMAIN instances
       THEN Return(p, "404")
       ELSE /\ tlock' = Acquire(tlock, p, "r")
            /\ Goto(p, "hr_template2")
            /\ UNCHANGED ilock
    /\ UNCHANGED <<templates, instances, disk, events, opsLeft, now, envVars>>

HttpRestartTemplate2(p) ==
    /\ task[p].pc = "hr_template2"
    /\ HoldsRead(tlock, p)
    /\ IF IsSome(TemplateGet(templates, instances[task[p].id].template_id))
       THEN /\ task' = [task EXCEPT
                  ![p].pc = "hr_start_monitor", ![p].mon = "start_process",
                  ![p].calls = Invoke(@, "start_process", None)]
            /\ UNCHANGED <<tlock, ilock>>
       ELSE Return(p, "400")
    /\ UNCHANGED <<templates, instances, disk, events, opsLeft, now, envVars>>

HttpRestartStartMonitor(p) ==
    /\ task[p].pc = "hr_start_monitor"
    /\ \/ /\ \E pid \in Pids :
               task' = [task EXCEPT ![p].pc = "hr_update", ![p].mon = "none",
                                    ![p].calls = Answer(@, "ok"),
                                    ![p].pid = Some(pid)]
          /\ UNCHANGED <<tlock, ilock>>
       \/ Return(p, "500")
    /\ UNCHANGED <<templates, instances, disk, events, opsLeft, now, envVars>>

HttpRestartUpdate(p) ==
    /\ task[p].pc = "hr_update"
    /\ instances' = SetStatus(instances, task[p].id, Running, task[p].pid, Some(now))
    /\ events' = Append(events, StatusChanged(task[p].id, Running, task[p].pid))
    /\ Return(p, "200")
    /\ UNCHANGED <<templates, disk, opsLeft, now, envVars>>

Next ==
    \E p \in Tasks :
        \/ BeginRegisterTemplate(p)
        \/ RegisterTemplate(p)
        \/ BeginRemoveTemplate(p)
        \/ RemoveTemplateCheck(p)
        \/ RemoveTemplate(p)
        \/ BeginCreateInstance(p)
        \/ CreateTemplate(p)
        \/ CreateMulti(p)
        \/ CreateAdd(p)
        \/ SaveRead(p)
        \/ SaveWrite(p)
        \/ Publish(p)
        \/ BeginStartInstance(p)
        \/ StartGet(p)
        \/ StartTemplate(p)
        \/ StartMonitor(p)
        \/ StartUpdate(p)
        \/ BeginStopInstance(p)
        \/ BeginRestartInstance(p)
        \/ BeginRemoveInstance(p)
        \/ StopGet(p)
        \/ StopTemplate(p)
        \/ StopMonitor(p)
        \/ RestartWake(p)
        \/ RemoveInstance(p)
        \/ BeginGetInstance(p)
        \/ GetInstance(p)
        \/ BeginHttpCreateTemplate(p)
        \/ HttpCreateTemplate(p)
        \/ BeginHttpCreateInstance(p)
        \/ HttpCreateInstanceTemplate(p)
        \/ HttpCreateInstanceAdd(p)
        \/ BeginHttpStart(p)
        \/ HttpStartGet(p)
        \/ HttpStartTemplate(p)
        \/ HttpStartMonitor(p)
        \/ HttpStartUpdate(p)
        \/ BeginHttpStop(p)
        \/ HttpStopGet(p)
        \/ HttpStopTemplate(p)
        \/ HttpStopMonitor(p)
        \/ BeginHttpRestart(p)
        \/ HttpRestartGet(p)
        \/ HttpRestartTemplate(p)
        \/ HttpRestartStopMonitor(p)
        \/ HttpRestartWake(p)
        \/ HttpRestartGet2(p)
        \/ HttpRestartTemplate2(p)
        \/ HttpRestartStartMonitor(p)
        \/ HttpRestartUpdate(p)

Spec == Init /\ [][Next]_vars

(***************************************************************************)
(* UsmCore::start_by_tags and UsmCore::stop_by_tags: the ids of the        *)
(* instances that carry one of the tags are collected under the instance   *)
(* read guard (todo), the guard is dropped, and start_instance or          *)
(* stop_instance is called for each id in turn, its result pushed          *)
(* (results); meanwhile other requests start, stop and remove instances.   *)
(***************************************************************************)
\* The tag lists the bulk operations are called with.
BulkTagInputs == {{}, {"x"}, {"y"}, {"x", "z"}}

\* The sequences that list each element of S once: the orders in which
\* the registry's HashMap may hand out its values.
Orders(S) ==
    {seq \in [1..Cardinality(S) -> S] : \A i, j \in DOMAIN seq : seq[i] = seq[j] => i = j}

\* The filter of the bulk operations: the instances carrying one of tags.
Matching(reg, tags) == {i \in DOMAIN reg : reg[i].tags \cap tags # {}}

BeginStartByTags(p) ==
    /\ \E tags \in BulkTagInputs :
          Call(p, [NewFrame("start_by_tags", "bulk_match") EXCEPT !.tags = tags])
    /\ ilock' = Acquire(ilock, p, "r")
    /\ UNCHANGED <<templates, instances, tlock, disk, events, envVars>>

BeginStopByTags(p) ==
    /\ \E tags \in BulkTagInputs :
          Call(p, [NewFrame("stop_by_tags", "bulk_match") EXCEPT !.tags = tags])
    /\ ilock' = Acquire(ilock, p, "r")
    /\ UNCHANGED <<templates, instances, tlock, disk, events, envVars>>

\* list, filter, map and collect under the read guard; drop(instances).
BulkMatch(p) ==
    /\ task[p].pc = "bulk_match"
    /\ HoldsRead(ilock, p)
    /\ \E matching \in Orders(Matching(instances, task[p].tags)) :
          task' = [task EXCEPT ![p].todo = matching, ![p].pc = "bulk_loop"]
    /\ ilock' = Release(ilock, p)
    /\ UNCHANGED <<templates, instances, tlock, disk, events, opsLeft, now, envVars>>

\* A loop that ends at the first failed result.
BulkLoopStopsOnError(p) ==
    /\ task[p].pc = "bulk_loop"
    /\ IF \/ Len(task[p].results) = Len(task[p].todo)
          \/ \E i \in 1..Len(task[p].results) : task[p].results[i].res # "ok"
       THEN Return(p, "ok")
       ELSE /\ task' = [task EXCEPT
                  ![p].id = task[p].todo[Len(task[p].results) + 1],
                  ![p].pc = IF task[p].op = "start_by_tags" THEN "start_get"
                            ELSE "stop_get"]
            /\ ilock' = Acquire(ilock, p, "w")
            /\ UNCHANGED tlock
    /\ UNCHANGED <<templates, instances, disk, events, opsLeft, now, envVars>>

\* for id in matching: the call for the next id is made, or the results
\* are returned when every id has been through.
BulkLoop(p) ==
    /\ task[p].pc = "bulk_loop"
    /\ IF Len(task[p].results) = Len(task[p].todo)
       THEN Return(p, "ok")
       ELSE /\ task' = [task EXCEPT
                  ![p].id = task[p].todo[Len(task[p].results) + 1],
                  ![p].pc = IF task[p].op = "start_by_tags" THEN "start_get"
                            ELSE "stop_get"]
            /\ ilock' = Acquire(ilock, p, "w")
            /\ UNCHANGED tlock
    /\ UNCHANGED <<templates, instances, disk, events, opsLeft, now, envVars>>

\* The config file of a deployment that tags its instances.
BulkConfigFile ==
    LET T == TemplateToFile(CHOOSE t \in TemplateInputs : t.id = "T" /\ ~t.supports_multiple)
        U == TemplateToFile(CHOOSE t \in TemplateInputs : t.id = "U")
    IN [templates |-> Put(Put(Empty, "T", T), "U", U),
        instances |-> Put(Put(Empty, "a", TaggedEntry("T", Some(9000), {"x"})),
                          "b", TaggedEntry("U", Some(9001), {"x", "y"}))]

BulkInit ==
    /\ Load(BulkConfigFile).ok
    /\ templates = Load(BulkConfigFile).templates
    /\ instances = Load(BulkConfigFile).instances
    /\ now = 0
    /\ disk = BulkConfigFile
    /\ tlock = FreeLock
    /\ ilock = FreeLock
    /\ events = <<>>
    /\ task = [p \in Tasks |-> IdleFrame("none")]
    /\ opsLeft = MaxOps
    /\ EnvInit

BulkNext ==
    \E p \in Tasks :
        \/ BeginStartByTags(p)
        \/ BeginStopByTags(p)
        \/ BulkMatch(p)
        \/ BulkLoop(p)
        \/ BeginStartInstance(p)
        \/ StartGet(p)
        \/ StartTemplate(p)
        \/ StartMonitor(p)
        \/ StartUpdate(p)
        \/ BeginStopInstance(p)
        \/ BeginRemoveInstance(p)
        \/ StopGet(p)
        \/ StopTemplate(p)
        \/ StopMonitor(p)
        \/ RemoveInstance(p)
        \/ SaveRead(p)
        \/ SaveWrite(p)
        \/ Publish(p)

BulkSpec == BulkInit /\ [][BulkNext]_vars

(***************************************************************************)
(* UsmCore::create_instance called by one caller that waits for each call  *)
(* to return before it makes the next: the calls do not overlap.           *)
(***************************************************************************)
SeqNext ==
    \/ BeginCreateInstance(1)
    \/ CreateTemplate(1)
    \/ CreateMulti(1)
    \/ CreateAdd(1)
    \/ SaveRead(1)
    \/ SaveWrite(1)
    \/ Publish(1)

SeqSpec == Init /\ [][SeqNext]_vars

(***************************************************************************)
(* The orchestrator's operations that take the two locks, with one more    *)
(* request in flight than in Spec: create_instance, start_instance,        *)
(* stop_instance, register_template and remove_template, each request      *)
(* served by a task of its own.                                            *)
(***************************************************************************)
LockTasks == 1..(MaxTasks + 1)

LockInit ==
    /\ \E file \in ConfigFiles :
        /\ Load(file).ok
        /\ templates = Load(file).templates
        /\ instances = Load(file).instances
        /\ disk = file
    /\ now = 0
    /\ tlock = FreeLock
    /\ ilock = FreeLock
    /\ events = <<>>
    /\ task = [p \in LockTasks |-> IdleFrame("none")]
    /\ opsLeft = MaxTasks + 1
    /\ EnvInit

\* create_instance is called with an identifier and without a port.
LockCreateInstance(p) ==
    /\ BeginCreateInstance(p)
    /\ task'[p].id # ""
    /\ task'[p].port = None

LockNext ==
    \E p \in LockTasks :
        \/ BeginRegisterTemplate(p)
        \/ RegisterTemplate(p)
        \/ BeginRemoveTemplate(p)
        \/ RemoveTemplateCheck(p)
        \/ RemoveTemplate(p)
        \/ LockCreateInstance(p)
        \/ CreateTemplate(p)
        \/ CreateMulti(p)
        \/ CreateAdd(p)
        \/ SaveRead(p)
        \/ SaveWrite(p)
        \/ Publish(p)
        \/ BeginStartInstance(p)
        \/ StartGet(p)
        \/ StartTemplate(p)
        \/ StartMonitor(p)
        \/ StartUpdate(p)
        \/ BeginStopInstance(p)
        \/ StopGet(p)
        \/ StopTemplate(p)
        \/ StopMonitor(p)

LockSpec == LockInit /\ [][LockNext]_vars

(***************************************************************************)
(* handle_websocket (server/mod.rs): a session reads the instances under   *)
(* the read guard and sends them as its first message (snap, with the      *)
(* number of events published when it was read), then subscribes to the    *)
(* event bus (from) and forwards the events it receives (fwd is the        *)
(* position of the next one); meanwhile HTTP requests start instances.     *)
(***************************************************************************)
BeginWebsocket(p) ==
    /\ Call(p, NewFrame("websocket", "ws_snapshot"))
    /\ ilock' = Acquire(ilock, p, "r")
    /\ UNCHANGED <<templates, instances, tlock, disk, events, envVars>>

\* instances.read(); the "connected" message is built; drop(instances).
WsSnapshot(p) ==
    /\ task[p].pc = "ws_snapshot"
    /\ HoldsRead(ilock, p)
    /\ task' = [task EXCEPT
          ![p].snap = Some([instances |-> instances, at |-> Len(events)]),
          ![p].pc = "ws_send"]
    /\ ilock' = Release(ilock, p)
    /\ UNCHANGED <<templates, instances, tlock, disk, events, opsLeft, now, envVars>>

\* socket.send(initial): the session ends if the send fails.
WsSend(p) ==
    /\ task[p].pc = "ws_send"
    /\ \/ Goto(p, "ws_subscribe") /\ UNCHANGED <<tlock, ilock>>
       \/ Return(p, "closed")
    /\ UNCHANGED <<templates, instances, disk, events, opsLeft, now, envVars>>

\* event_bus.subscribe(): the receiver sees the events published from now on.
WsSubscribe(p) ==
    /\ task[p].pc = "ws_subscribe"
    /\ task' = [task EXCEPT ![p].from = Len(events), ![p].fwd = Len(events),
                            ![p].pc = "ws_loop"]
    /\ UNCHANGED <<templates, instances, tlock, ilock, disk, events, opsLeft, now,
                   envVars>>

\* rx.recv() returns the next event and it is sent on the socket; the
\* session ends if the send fails.
WsForward(p) ==
    /\ task[p].pc = "ws_loop"
    /\ task[p].fwd < Len(events)
    /\ \/ task' = [task EXCEPT ![p].fwd = @ + 1] /\ UNCHANGED <<tlock, ilock>>
       \/ Return(p, "closed")
    /\ UNCHANGED <<templates, instances, disk, events, opsLeft, now, envVars>>

\* The client closes the socket.
WsClose(p) ==
    /\ task[p].pc = "ws_loop"
    /\ Return(p, "closed")
    /\ UNCHANGED <<templates, instances, disk, events, opsLeft, now, envVars>>

WsNext ==
    \E p \in Tasks :
        \/ BeginWebsocket(p)
        \/ WsSnapshot(p)
        \/ WsSend(p)
        \/ WsSubscribe(p)
        \/ WsForward(p)
        \/ WsClose(p)
        \/ BeginHttpStart(p)
        \/ HttpStartGet(p)
        \/ HttpStartTemplate(p)
        \/ HttpStartMonitor(p)
        \/ HttpStartUpdate(p)

WsSpec == Init /\ [][WsNext]_vars

(***************************************************************************)
(* The process monitor (monitor/macos.rs, monitor/linux.rs), on its own:   *)
(* a sequence of calls of one monitor, interleaved with what the operating *)
(* system does meanwhile (wrapper shells writing the capture file,         *)
(* processes dying, a process taking or leaving the port).                 *)
(***************************************************************************)
\* Number of monitor calls in one behaviour.
MaxCalls == 3

\* PIDs: one per spawn, and one service that is started outside the monitor.
External == MaxCalls + 1
ServicePids == 1..External

\* The registries and the requests at rest.
CoreQuiet ==
    /\ templates = Empty
    /\ instances = Empty
    /\ tlock = FreeLock
    /\ ilock = FreeLock
    /\ disk = [templates |-> Empty, instances |-> Empty]
    /\ events = <<>>
    /\ task = [p \in Tasks |-> IdleFrame("none")]
    /\ opsLeft = 0
    /\ now = 0

MonInit ==
    /\ CoreQuiet
    /\ \E os \in {"macos", "linux"} : sys = SysInit(os)
    /\ mcall = McallIdle
    /\ bus = BusIdle

Ok(pid) == Some([ok |-> TRUE, pid |-> pid])
Err == Some([ok |-> FALSE, pid |-> 0])

\* is_running: the process table holds the PID.
IsRunning(pid) == pid \in sys.running

\* A call of start_process, start_process_with_port or kill_process.  On
\* macOS start_process is start_process_with_port without a port.
MonBegin ==
    /\ mcall.pc = "idle"
    /\ mcall.n < MaxCalls
    /\ \/ \E op \in {"start_process", "start_process_with_port"},
             port \in {None, Some(9000)} :
             /\ op = "start_process" => port = None
             /\ mcall' = [McallIdle EXCEPT !.pc = "spawn", !.op = op, !.port = port,
                                           !.n = mcall.n + 1]
       \/ \E pid \in ServicePids :
             mcall' = [McallIdle EXCEPT !.pc = "term", !.op = "kill_process",
                                        !.target = pid, !.n = mcall.n + 1]
    /\ UNCHANGED <<sys, coreVars, bus>>

\* macOS: the log files are created and the wrapper shell is spawned; either
\* can fail.  The wrapper starts the service (PID sys.next) and will write
\* that PID to the capture file.
MacSpawn ==
    /\ mcall.pc = "spawn"
    /\ sys.os = "macos"
    /\ \/ /\ mcall' = [mcall EXCEPT !.pc = "idle", !.ret = Err, !.how = "io"]
          /\ UNCHANGED sys
       \/ /\ sys' = [sys EXCEPT
                       !.running = @ \cup {sys.next},
                       !.writers = @ \cup {[by |-> mcall.n, pid |-> sys.next, ino |-> 0]},
                       !.next = @ + 1]
          /\ mcall' = [mcall EXCEPT !.pc = "poll"]
    /\ UNCHANGED <<coreVars, bus>>

\* The capture file's path: temp_dir()/usm-<pid of this program>.pid, the
\* same for every call.  A wrapper's redirection opens it (creating or
\* truncating it) ...
WrapperOpen ==
    /\ \E w \in sys.writers :
          /\ w.ino = 0
          /\ LET ino == IF IsSome(sys.pidfile) THEN Unwrap(sys.pidfile).ino ELSE w.by
             IN sys' = [sys EXCEPT
                          !.pidfile = Some([ino |-> ino, by |-> w.by, text |-> None]),
                          !.writers = (@ \ {w}) \cup {[w EXCEPT !.ino = ino]}]
    /\ UNCHANGED <<mcall, coreVars, bus>>

\* ... and echo writes the service's PID into the file it opened, which
\* may have been removed meanwhile.
WrapperWrite ==
    /\ \E w \in sys.writers :
          /\ w.ino # 0
          /\ sys' = [sys EXCEPT
                       !.writers = @ \ {w},
                       !.pidfile = IF IsSome(@) /\ Unwrap(@).ino = w.ino
                                   THEN Some([ino |-> w.ino, by |-> w.by,
                                              text |-> Some(w.pid)])
                                   ELSE @]
    /\ UNCHANGED <<mcall, coreVars, bus>>

\* After 200 ms: the file is read, removed and parsed.  No file, a failed
\* read and text that is not a number all give PID 0.
MacPoll ==
    /\ mcall.pc = "poll"
    /\ IF IsSome(sys.pidfile)
       THEN \/ /\ sys' = [sys EXCEPT !.pidfile = None]
               /\ LET f == Unwrap(sys.pidfile)
                  IN mcall' = [mcall EXCEPT
                                 !.pc = "verify",
                                 !.pid = IF IsSome(f.text) THEN Unwrap(f.text) ELSE 0,
                                 !.by = IF IsSome(f.text) THEN f.by ELSE 0]
            \/ /\ mcall' = [mcall EXCEPT !.pc = "verify", !.pid = 0]
               /\ UNCHANGED sys
       ELSE /\ mcall' = [mcall EXCEPT !.pc = "verify", !.pid = 0]
            /\ UNCHANGED sys
    /\ UNCHANGED <<coreVars, bus>>

\* The verification that skips is_running for the captured PID.
MacVerifyNoCheck ==
    /\ mcall.pc = "verify"
    /\ mcall' = IF mcall.pid > 0
                THEN [mcall EXCEPT !.pc = "idle", !.ret = Ok(mcall.pid),
                                   !.how = "captured"]
                ELSE [mcall EXCEPT !.pc = "idle", !.ret = Err, !.how = "died"]
    /\ UNCHANGED <<sys, coreVars, bus>>

\* After 3 s more: the captured PID if it is running; else, with a port,
\* the PID lsof finds on the port (lsof can fail) if that is running; else
\* the call fails.
MacVerify ==
    /\ mcall.pc = "verify"
    /\ IF mcall.pid > 0 /\ IsRunning(mcall.pid)
       THEN mcall' = [mcall EXCEPT !.pc = "idle", !.ret = Ok(mcall.pid),
                                   !.how = "captured"]
       ELSE IF IsSome(mcall.port)
       THEN \E found \in {sys.listener, None} :
               mcall' = IF IsSome(found) /\ IsRunning(Unwrap(found))
                        THEN [mcall EXCEPT !.pc = "idle", !.ret = Ok(Unwrap(found)),
                                           !.found = found, !.how = "port"]
                        ELSE [mcall EXCEPT !.pc = "idle", !.ret = Err,
                                           !.found = found, !.how = "died"]
       ELSE mcall' = [mcall EXCEPT !.pc = "idle", !.ret = Err, !.how = "died"]
    /\ UNCHANGED <<sys, coreVars, bus>>

\* Linux: start_process_with_port is the trait's default, which drops the
\* port and calls start_process; start_process spawns `bash -c "<cmd> &"`
\* and returns the PID of that shell at once.
LinuxStart ==
    /\ mcall.pc = "spawn"
    /\ sys.os = "linux"
    /\ \/ /\ mcall' = [mcall EXCEPT !.pc = "idle", !.ret = Err, !.how = "io"]
          /\ UNCHANGED sys
       \/ /\ sys' = [sys EXCEPT !.running = @ \cup {sys.next}, !.next = @ + 1]
          /\ mcall' = [mcall EXCEPT !.pc = "idle", !.ret = Ok(sys.next),
                                    !.how = "unverified"]
    /\ UNCHANGED <<coreVars, bus>>

\* What running /bin/kill can give: exit status 0, another exit status, or
\* no status because the command could not be run.
SignalOutcomes(pid) ==
    IF IsRunning(pid) THEN {"ok", "fail", "spawn_err"} ELSE {"fail", "spawn_err"}

\* kill_process that sends SIGKILL whatever SIGTERM's status was.
KillTermAlwaysEscalates ==
    /\ mcall.pc = "term"
    /\ \E out \in SignalOutcomes(mcall.target) :
          mcall' = [mcall EXCEPT
                      !.sigs = Append(@, [sig |-> "TERM", out |-> out]),
                      !.pc = IF out = "spawn_err" THEN "idle" ELSE "kill",
                      !.ret = IF out = "spawn_err" THEN Err ELSE None]
    /\ UNCHANGED <<sys, coreVars, bus>>

\* kill_process: /bin/kill -TERM; `?` returns the error when it cannot be
\* run; a status that is not success leads to the forced kill.
KillTerm ==
    /\ mcall.pc = "term"
    /\ \E out \in SignalOutcomes(mcall.target) :
          mcall' = [mcall EXCEPT
                      !.sigs = Append(@, [sig |-> "TERM", out |-> out]),
                      !.pc = IF out = "fail" THEN "kill" ELSE "idle",
                      !.ret = CASE out = "ok" -> Ok(mcall.target)
                                [] out = "spawn_err" -> Err
                                [] OTHER -> None]
    /\ UNCHANGED <<sys, coreVars, bus>>

\* /bin/kill -KILL: only a failure to run it is an error; its status is
\* not looked at.
KillKill ==
    /\ mcall.pc = "kill"
    /\ \E out \in SignalOutcomes(mcall.target) :
          mcall' = [mcall EXCEPT
                      !.sigs = Append(@, [sig |-> "KILL", out |-> out]),
                      !.pc = "idle",
                      !.ret = IF out = "spawn_err" THEN Err ELSE Ok(mcall.target)]
    /\ UNCHANGED <<sys, coreVars, bus>>

\* The operating system meanwhile.
ProcessDies ==
    /\ \E pid \in sys.running : sys' = [sys EXCEPT !.running = @ \ {pid}]
    /\ UNCHANGED <<mcall, coreVars, bus>>

ExternalStarts ==
    /\ External \notin sys.running
    /\ sys' = [sys EXCEPT !.running = @ \cup {External}]
    /\ UNCHANGED <<mcall, coreVars, bus>>

PortTaken ==
    /\ \E pid \in sys.running :
          /\ sys.listener # Some(pid)
          /\ sys' = [sys EXCEPT !.listener = Some(pid)]
    /\ UNCHANGED <<mcall, coreVars, bus>>

PortFreed ==
    /\ IsSome(sys.listener)
    /\ sys' = [sys EXCEPT !.listener = None]
    /\ UNCHANGED <<mcall, coreVars, bus>>

MonNext ==
    \/ MonBegin
    \/ MacSpawn
    \/ WrapperOpen
    \/ WrapperWrite
    \/ MacPoll
    \/ MacVerify
    \/ LinuxStart
    \/ KillTerm
    \/ KillKill
    \/ ProcessDies
    \/ ExternalStarts
    \/ PortTaken
    \/ PortFreed

MonSpec == MonInit /\ [][MonNext]_vars

(***************************************************************************)
(* The event bus (events/bus.rs), on its own: subscribers come and go,     *)
(* events are sent and received.  The channel is tokio's broadcast         *)
(* channel: a send with no receiver is an error that stores nothing; any   *)
(* other send stores the event at position tail, keeping the newest        *)
(* BusCapacity events, and returns the number of receivers; a receiver     *)
(* reads from its own position, and one that fell behind the retained      *)
(* events is told so and moved to the oldest retained one.                 *)
(***************************************************************************)
MaxSubscribers == 2
BusCapacity == 2
MaxSends == 3

Receivers == 1..MaxSubscribers
BusEvents == {TemplateRegistered("T"), InstanceRemoved("a")}

\* The position of the oldest event the channel retains.
BusHead(b) == b.tail - Len(b.buf)

\* A channel that never drops an event.
RetainAll(buf, e) == Append(buf, e)

\* A receiver's record of one recv: the event at position pos, or a gap
\* of `lagged` events that ends at position pos.
Received(pos, e) == [pos |-> pos, lagged |-> 0, event |-> Some(e)]
Gap(pos, n) == [pos |-> pos, lagged |-> n, event |-> None]

\* The events kept after e was stored in a channel of BusCapacity slots.
Retain(buf, e) ==
    IF Len(buf) < BusCapacity THEN Append(buf, e) ELSE Append(Tail(buf), e)

BusInit ==
    /\ CoreQuiet
    /\ sys = SysInit("macos")
    /\ mcall = McallIdle
    /\ bus = [BusIdle EXCEPT !.left = MaxSends]

\* A subscribe that hands out a receiver placed at the oldest retained event.
SubscribeFromHead ==
    /\ \E r \in Receivers \ DOMAIN bus.rx :
          bus' = [bus EXCEPT !.rx = Put(@, r, BusHead(bus)),
                             !.since = Put(@, r, bus.tail),
                             !.got = Put(@, r, <<>>)]
    /\ UNCHANGED <<coreVars, sys, mcall>>

\* EventBus::subscribe: a new receiver, placed after the events stored so far.
Subscribe ==
    /\ \E r \in Receivers \ DOMAIN bus.rx :
          bus' = [bus EXCEPT !.rx = Put(@, r, bus.tail),
                             !.since = Put(@, r, bus.tail),
                             !.got = Put(@, r, <<>>)]
    /\ UNCHANGED <<coreVars, sys, mcall>>

\* A subscriber drops its receiver.
Unsubscribe ==
    /\ \E r \in DOMAIN bus.rx :
          bus' = [bus EXCEPT !.rx = Del(@, r), !.since = Del(@, r), !.got = Del(@, r)]
    /\ UNCHANGED <<coreVars, sys, mcall>>

\* A send that returns the number of events stored instead of the number
\* of receivers.
SendReturnsStored(e) ==
    /\ bus.left > 0
    /\ IF DOMAIN bus.rx = {}
       THEN bus' = [bus EXCEPT !.sent = Some(e), !.ret = Some(0), !.left = @ - 1]
       ELSE bus' = [bus EXCEPT !.buf = Retain(@, e), !.tail = @ + 1,
                               !.log = Append(@, e),
                               !.sent = Some(e),
                               !.ret = Some(Len(Retain(bus.buf, e))),
                               !.left = @ - 1]
    /\ UNCHANGED <<coreVars, sys, mcall>>

\* EventBus::send: sender.send(event).unwrap_or(0).
Send(e) ==
    /\ bus.left > 0
    /\ IF DOMAIN bus.rx = {}
       THEN bus' = [bus EXCEPT !.sent = Some(e), !.ret = Some(0), !.left = @ - 1]
       ELSE bus' = [bus EXCEPT !.buf = Retain(@, e), !.tail = @ + 1,
                               !.log = Append(@, e),
                               !.sent = Some(e),
                               !.ret = Some(Cardinality(DOMAIN bus.rx)),
                               !.left = @ - 1]
    /\ UNCHANGED <<coreVars, sys, mcall>>

BusSend == \E e \in BusEvents : Send(e)

\* Receiver::recv with something to return: the event at the receiver's
\* position, or Lagged with the number of events it missed.
Recv ==
    /\ \E r \in DOMAIN bus.rx :
          /\ bus.rx[r] < bus.tail
          /\ IF bus.rx[r] < BusHead(bus)
             THEN bus' = [bus EXCEPT
                     !.rx[r] = BusHead(bus),
                     !.got[r] = Append(@, Gap(BusHead(bus), BusHead(bus) - bus.rx[r])),
                     !.recv = Some([by |-> r, lagged |-> BusHead(bus) - bus.rx[r],
                                    event |-> None])]
             ELSE bus' = [bus EXCEPT
                     !.rx[r] = @ + 1,
                     !.got[r] = Append(@, Received(bus.rx[r],
                                     bus.buf[bus.rx[r] - BusHead(bus) + 1])),
                     !.recv = Some([by |-> r, lagged |-> 0,
                                    event |-> Some(bus.buf[bus.rx[r] - BusHead(bus) + 1])])]
    /\ UNCHANGED <<coreVars, sys, mcall>>

BusNext ==
    \/ Subscribe
    \/ Unsubscribe
    \/ BusSend
    \/ Recv

BusSpec == BusInit /\ [][BusNext]_vars

(***************************************************************************)
(* The registries (service/registry.rs), on their own: a sequence of       *)
(* calls on one TemplateRegistry and one InstanceRegistry, as their unit   *)
(* tests make them.  The frame of task 1 is the record of the last call    *)
(* (its arguments and its result), the frame of task 2 the record of the   *)
(* call before it.                                                         *)
(***************************************************************************)
\* The instances a caller can hand to InstanceRegistry::add.
InstanceInputs ==
    {FromConfig([instance_id |-> c.instance_id, template_id |-> c.template_id,
                 port |-> c.port, tags |-> {}], 0).inst :
        c \in {x \in InstanceConfigs : x.instance_id # ""}}

\* The call made is recorded, the record of the call before it is kept.
Recorded(op, res, tid, tmpl, id, inst) ==
    task' = [p \in Tasks |->
                IF p = 1
                THEN [IdleFrame(res) EXCEPT !.op = op, !.tid = tid, !.tmpl = tmpl,
                                            !.id = id, !.inst = inst]
                ELSE IF p = 2 THEN task[1] ELSE task[p]]

RegInit ==
    /\ CoreQuiet
    /\ EnvInit

RegTemplateRegister ==
    /\ \E t \in TemplateInputs :
          LET r == TemplateRegister(templates, t)
          IN /\ templates' = r.reg
             /\ Recorded("template_register", IF r.ok THEN "ok" ELSE "err_conflict",
                         t.id, Some(t), "", NoInstance)
    /\ UNCHANGED <<instances, tlock, ilock, disk, events, opsLeft, now, envVars>>

RegTemplateRemove ==
    /\ \E tid \in TemplateIds :
          LET r == TemplateRemove(templates, tid)
          IN /\ templates' = r.reg
             /\ Recorded("template_remove", IF r.ok THEN "ok" ELSE "err_not_found",
                         tid, TemplateGet(templates, tid), "", NoInstance)
    /\ UNCHANGED <<instances, tlock, ilock, disk, events, opsLeft, now, envVars>>

RegInstanceAdd ==
    /\ \E i \in InstanceInputs :
          LET r == RegistryAdd(instances, i)
          IN /\ instances' = r.reg
             /\ Recorded("instance_add", IF r.ok THEN "ok" ELSE "err_conflict",
                         "", NoTemplate, i.id, Some(i))
    /\ UNCHANGED <<templates, tlock, ilock, disk, events, opsLeft, now, envVars>>

RegInstanceRemove ==
    /\ \E id \in InstanceIds :
          LET r == RegistryRemove(instances, id)
          IN /\ instances' = r.reg
             /\ Recorded("instance_remove", IF r.ok THEN "ok" ELSE "err_not_found",
                         "", NoTemplate, id,
                         IF id \in DOMAIN instances THEN Some(instances[id])
                         ELSE NoInstance)
    /\ UNCHANGED <<templates, tlock, ilock, disk, events, opsLeft, now, envVars>>

RegNext ==
    \/ RegTemplateRegister
    \/ RegTemplateRemove
    \/ RegInstanceAdd
    \/ RegInstanceRemove

RegSpec == RegInit /\ [][RegNext]_vars

(***************************************************************************)
(* InstanceRegistry::update_status, called on the registry of a loaded     *)
(* configuration.  The frame of task 1 is the record of the call made last *)
(* (its arguments and its result).                                         *)
(***************************************************************************)
\* ServiceStatus.
Statuses == {Stopped, Running, "starting", "stopping", "error", "unknown"}

\* An update that stamps started_at on every update to Running.
UpdateStatusAlwaysStamps(reg, id, status, pid, t) ==
    IF id \notin DOMAIN reg THEN [ok |-> FALSE, reg |-> reg]
    ELSE [ok |-> TRUE,
          reg |-> SetStatus(reg, id, status, pid,
                            IF status = Running THEN Some(t) ELSE None)]

\* InstanceRegistry::update_status at time t: [ok, reg].
UpdateStatus(reg, id, status, pid, t) ==
    IF id \notin DOMAIN reg THEN [ok |-> FALSE, reg |-> reg]
    ELSE [ok |-> TRUE,
          reg |-> SetStatus(reg, id, status, pid,
                            IF status = Running /\ ~IsSome(reg[id].started_at)
                            THEN Some(t)
                            ELSE IF status # Running THEN None
                            ELSE reg[id].started_at)]

UpdateStatusCall ==
    /\ opsLeft > 0
    /\ \E id \in InstanceIds, status \in Statuses,
          pid \in {None} \cup {Some(q) : q \in Pids} :
          LET r == UpdateStatus(instances, id, status, pid, now + 1)
          IN /\ instances' = r.reg
             /\ task' = [task EXCEPT ![1] =
                           [IdleFrame(IF r.ok THEN "ok" ELSE "err_not_found")
                               EXCEPT !.op = "update_status", !.id = id,
                                      !.status = status, !.pid = pid]]
    /\ opsLeft' = opsLeft - 1
    /\ now' = now + 1
    /\ UNCHANGED <<templates, tlock, ilock, disk, events, envVars>>

StatusNext == UpdateStatusCall

StatusSpec == Init /\ [][StatusNext]_vars

(***************************************************************************)
(* ServiceInstance::from_config, called on its own: the frame of task 1    *)
(* holds the InstanceConfig of the call and then its result.               *)
(***************************************************************************)
\* The InstanceConfig values of the calls, the empty identifiers included.
FromConfigInputs ==
    [instance_id : InstanceIds \cup {""}, template_id : TemplateIds \cup {""},
     port : PortInputs, tags : BulkTagInputs]

FromConfigInit ==
    /\ \E c \in FromConfigInputs :
          task = [p \in Tasks |->
                    IF p = 1
                    THEN [NewFrame("from_config", "fc_call")
                             EXCEPT !.id = c.instance_id, !.tid = c.template_id,
                                    !.port = c.port, !.tags = c.tags]
                    ELSE IdleFrame("none")]
    /\ templates = Empty
    /\ instances = Empty
    /\ tlock = FreeLock
    /\ ilock = FreeLock
    /\ disk = [templates |-> Empty, instances |-> Empty]
    /\ events = <<>>
    /\ opsLeft = 0
    /\ now = 0
    /\ EnvInit

FromConfigCall ==
    /\ task[1].pc = "fc_call"
    /\ LET f == task[1]
           fc == FromConfig([instance_id |-> f.id, template_id |-> f.tid,
                             port |-> f.port, tags |-> f.tags], now)
       IN task' = [task EXCEPT ![1].pc = "fc_done",
                               ![1].res = IF fc.ok THEN "ok" ELSE "err_validation",
                               ![1].inst = IF fc.ok THEN Some(fc.inst) ELSE NoInstance]
    /\ UNCHANGED <<templates, instances, tlock, ilock, disk, events, opsLeft, now,
                   envVars>>

FromConfigNext == FromConfigCall

FromConfigSpec == FromConfigInit /\ [][FromConfigNext]_vars

(***************************************************************************)
(* Properties.                                                             *)
(***************************************************************************)
\* The step in which task p returns from its call.
Returns(p) == task[p].pc # "idle" /\ task'[p].pc = "idle"

InstancesOf(tid) == {i \in DOMAIN instances : instances[i].template_id = tid}

\* C1: no two instances in the registry hold the same port.
C1_PortsUnique ==
    \A i, j \in DOMAIN instances : i # j => instances[i].port # instances[j].port

\* Two instances added by requests (not by the load) are in the registry.
C1_Witness ==
    \E i, j \in DOMAIN instances :
        i # j /\ instances[i].created_at > 0 /\ instances[j].created_at > 0

\* C2: a template with supports_multiple = false never has more than one
\* instance in the registry.
C2_SingleInstancePerTemplate ==
    \A tid \in DOMAIN templates :
        ~templates[tid].supports_multiple => Cardinality(InstancesOf(tid)) <= 1

\* C3: every instance's template_id names a registered template.
C3_TemplatesOfInstancesExist ==
    \A i \in DOMAIN instances : instances[i].template_id \in DOMAIN templates

\* C4: started_at is set iff the status is Running, and pid is set iff the
\* status is Running.
C4_RuntimeFieldsMatchStatus ==
    \A i \in DOMAIN instances :
        /\ IsSome(instances[i].started_at) <=> instances[i].status = Running
        /\ IsSome(instances[i].pid) <=> instances[i].status = Running

\* C5: when start_instance returns success the instance is Running with the
\* PID the monitor returned and started_at set; when stop_instance returns
\* success for an instance that was Running, it is Stopped with no pid and
\* no started_at.
C5_StartThenStop ==
    [][\A p \in Tasks :
         /\ (Returns(p) /\ task[p].op = "start_instance" /\ task'[p].res = "ok")
               => /\ task[p].id \in DOMAIN instances'
                  /\ instances'[task[p].id].status = Running
                  /\ IsSome(task[p].pid)
                  /\ instances'[task[p].id].pid = task[p].pid
                  /\ IsSome(instances'[task[p].id].started_at)
         /\ (/\ Returns(p) /\ task[p].op = "stop_instance" /\ task'[p].res = "ok"
             /\ task[p].id \in DOMAIN instances
             /\ instances[task[p].id].status = Running)
               => /\ task[p].id \in DOMAIN instances'
                  /\ instances'[task[p].id].status = Stopped
                  /\ instances'[task[p].id].pid = None
                  /\ instances'[task[p].id].started_at = None]_vars

\* A start_instance and then a stop_instance of the same instance succeeded.
C5_Witness ==
    \E p, q \in Tasks :
        /\ task[p].pc = "idle" /\ task[p].op = "start_instance" /\ task[p].res = "ok"
        /\ task[q].pc = "idle" /\ task[q].op = "stop_instance" /\ task[q].res = "ok"
        /\ task[p].id = task[q].id
        /\ Len(events) = 2
        /\ events[1].status = Running /\ events[2].status = Stopped
        /\ instances[task[q].id].status = Stopped

\* C6: stopping an existing instance that is not Running returns success,
\* calls no monitor function, publishes nothing and changes no registry;
\* for UsmCore::stop_instance and for the HTTP stop handler.
C6_StopOfStoppedIsNoOp ==
    [][\A p \in Tasks :
         (/\ \/ task[p].op = "stop_instance" /\ task[p].pc = "stop_get"
             \/ task[p].op = "http_stop" /\ task[p].pc = "hp_get"
          /\ task[p].id \in DOMAIN instances
          /\ instances[task[p].id].status # Running
          /\ task'[p] # task[p])
            => /\ task'[p].pc = "idle"
               /\ task'[p].res = IF task[p].op = "stop_instance" THEN "ok" ELSE "200"
               /\ instances' = instances
               /\ templates' = templates
               /\ events' = events]_vars

\* Both stop paths returned success on a stopped instance, with no event.
C6_Witness ==
    \E p, q \in Tasks :
        /\ task[p].pc = "idle" /\ task[p].op = "stop_instance" /\ task[p].res = "ok"
        /\ task[q].pc = "idle" /\ task[q].op = "http_stop" /\ task[q].res = "200"
        /\ task[p].id = task[q].id
        /\ task[p].id \in DOMAIN instances
        /\ instances[task[p].id].status = Stopped
        /\ events = <<>>

\* What an event announces, read in the registries tmpls and insts.
Reflects(e, tmpls, insts) ==
    CASE e.type = "instance_created" -> e.instance_id \in DOMAIN insts
      [] e.type = "instance_removed" -> e.instance_id \notin DOMAIN insts
      [] e.type = "status_changed" ->
            /\ e.instance_id \in DOMAIN insts
            /\ insts[e.instance_id].status = e.status
            /\ insts[e.instance_id].pid = e.pid
      [] e.type = "template_registered" -> e.template_id \in DOMAIN tmpls
      [] e.type = "template_removed" -> e.template_id \notin DOMAIN tmpls

\* C7: at the moment an event is published the registries already hold the
\* change it announces.
C7_EventsReflectRegistries ==
    [][events' # events =>
          /\ Len(events') = Len(events) + 1
          /\ Reflects(events'[Len(events')], templates', instances')]_vars

\* An instance was created and then started, each with its event.
C7_Witness ==
    /\ Len(events) = 2
    /\ events[1].type = "instance_created"
    /\ events[2].type = "status_changed"
    /\ events[2].instance_id = events[1].instance_id

CreationOps ==
    {"create_instance", "register_template", "http_create_instance",
     "http_create_template"}

CreationEvent(f) ==
    IF f.op \in {"create_instance", "http_create_instance"}
    THEN InstanceCreated(f.id, f.tid)
    ELSE TemplateRegistered(f.tid)

\* C8: every successful creation of an instance or registration of a
\* template, through UsmCore or through the HTTP handlers, returns from the
\* publication that follows the save, having published exactly one
\* InstanceCreated / TemplateRegistered event.
C8_CreateSavesThenPublishes ==
    [][\A p \in Tasks :
         (/\ Returns(p) /\ task[p].op \in CreationOps
          /\ task'[p].res \in {"ok", "200"})
            => /\ task[p].pc = "publish"
               /\ events' = Append(events, CreationEvent(task[p]))]_vars

InMonitor(p) == task[p].mon # "none"

\* C9: a task that is inside a monitor call holds the instance write guard,
\* no other task is inside a monitor call, and the instance is still as the
\* task read it: it exists, and it is Running when the call is a stop.
C9_MonitorCallsSerialized ==
    \A p \in Tasks :
        InMonitor(p) =>
            /\ HoldsWrite(ilock, p)
            /\ \A q \in Tasks : q # p => ~InMonitor(q)
            /\ task[p].id \in DOMAIN instances
            /\ task[p].mon # "start_process" => instances[task[p].id].status = Running

\* A start is inside the monitor while a stop of the same instance waits.
C9_Witness ==
    \E p, q \in Tasks :
        /\ p # q
        /\ task[p].op = "start_instance" /\ task[p].mon = "start_process"
        /\ task[q].op = "stop_instance" /\ task[q].id = task[p].id
        /\ Queued(ilock, q)

\* C10: while a start_instance(A) is inside the monitor's start call, no
\* stop_instance, start_instance or get_instance of another instance waits.
C10_OtherInstancesNotBlocked ==
    \A p, q \in Tasks :
        (/\ task[p].op = "start_instance" /\ task[p].mon = "start_process"
         /\ task[q].op \in {"stop_instance", "start_instance", "get_instance"}
         /\ task[q].id # task[p].id)
            => ~Queued(ilock, q)

StopPaths == {"stop_instance", "restart_instance", "remove_instance", "http_stop"}
RestartOps == {"restart_instance", "http_restart"}
StopCalls == {"execute_command", "kill_process"}
StartCalls == {"start_process", "start_process_with_port"}

\* The request is about to choose its stop call / is inside it.
InStopDecision(p) ==
    task[p].op \in StopPaths /\ task[p].pc \in {"stop_template", "hp_template"}
InStopCall(p) ==
    task[p].op \in StopPaths /\ task[p].pc \in {"stop_monitor", "hp_monitor"}

\* The stop call the registries ask for, for task p's instance.
ExpectedStop(p) ==
    LET inst == instances[task[p].id]
    IN [name |-> IF /\ inst.template_id \in DOMAIN templates
                    /\ IsSome(templates[inst.template_id].stop_command)
                 THEN "execute_command" ELSE "kill_process",
        arg |-> inst.pid, res |-> "pending"]

\* The names of the calls in a frame's record, in order.
CallNames(calls) == [i \in 1..Len(calls) |-> calls[i].name]

C16_RestartStopsThenStarts ==
    [][\A p \in Tasks :
         task[p].op \in RestartOps =>
            /\ \/ task'[p].pc = "idle"
               \/ \E stops \in {<<>>} \cup {<<c>> : c \in StopCalls},
                     starts \in {<<>>} \cup {<<c>> : c \in StartCalls} :
                     CallNames(task'[p].calls) = stops \o starts
            /\ (/\ task[p].pc \in {"stop_template", "hr_template"}
                /\ task'[p] # task[p]
                /\ instances[task[p].id].status = Running
                /\ IsSome(instances[task[p].id].pid)
                /\ instances[task[p].id].template_id \in DOMAIN templates)
                  => task'[p].calls = <<ExpectedStop(p)>>
            /\ (Returns(p) /\ task'[p].res \in {"ok", "200"})
                  => /\ task[p].calls # <<>>
                     /\ task[p].calls[Len(task[p].calls)].name \in StartCalls
                     /\ task[p].calls[Len(task[p].calls)].res = "ok"
                     /\ IsSome(task[p].pid)
                     /\ instances'[task[p].id].status = Running
                     /\ instances'[task[p].id].pid = task[p].pid]_vars

\* A restart of a Running instance through UsmCore has returned success:
\* the start, then the restart's stop and start, each with its event.
C16_Witness ==
    \E p \in Tasks :
        /\ task[p].pc = "idle" /\ task[p].op = "restart_instance" /\ task[p].res = "ok"
        /\ Len(events) = 3
        /\ events[2].status = Stopped /\ events[3].status = Running
        /\ instances[task[p].id].status = Running

\* C17: remove_instance goes on to the removal whatever its stop attempt
\* returned; at the removal an existing instance is removed and an unknown
\* id fails with NotFound; after the removal only persistence can fail; a
\* successful remove_instance returns from publishing InstanceRemoved, as
\* the last event, with the instance absent.
C17_RemoveProceedsAfterStop ==
    [][\A p \in Tasks :
         task[p].op = "remove_instance" =>
            /\ (task[p].pc \in {"stop_get", "stop_template", "stop_monitor"}
                  /\ task'[p] # task[p])
                  => task'[p].pc \in {"stop_template", "stop_monitor", "ri_remove"}
            /\ (task[p].pc = "ri_remove" /\ task'[p] # task[p])
                  => IF task[p].id \in DOMAIN instances
                     THEN /\ task'[p].pc = "save_read"
                          /\ task[p].id \notin DOMAIN instances'
                     ELSE /\ task'[p].pc = "idle"
                          /\ task'[p].res = "err_not_found"
            /\ (task[p].pc \in {"save_read", "save_write"} /\ Returns(p))
                  => task'[p].res = "err_persist"
            /\ (task[p].pc = "publish" /\ task'[p] # task[p])
                  => /\ task'[p].pc = "idle" /\ task'[p].res = "ok"
                     /\ events' = Append(events, InstanceRemoved(task[p].id))
                     /\ task[p].id \notin DOMAIN instances'
            /\ (Returns(p) /\ task'[p].res = "ok") => task[p].pc = "publish"]_vars

\* A Running instance was removed although its stop attempt failed: the
\* start's event is followed by InstanceRemoved, with no Stopped event.
C17_Witness ==
    \E p \in Tasks :
        /\ task[p].pc = "idle" /\ task[p].op = "remove_instance" /\ task[p].res = "ok"
        /\ Len(events) = 2
        /\ events[1].status = Running
        /\ events[2] = InstanceRemoved(task[p].id)
        /\ task[p].id \notin DOMAIN instances

\* The operations whose best-effort steps may swallow a failure.
BestEffortOps == {"remove_instance", "start_by_tags", "stop_by_tags"}

\* C19: apart from remove_instance and the bulk tag operations, an operation
\* that returns success has had no monitor call fail inside it.
C19_NoSuccessAfterFailure ==
    [][\A p \in Tasks :
         (/\ Returns(p) /\ task[p].op \notin BestEffortOps
          /\ task'[p].res \in {"ok", "200"})
            => \A i \in 1..Len(task[p].calls) : task[p].calls[i].res # "err"]_vars

\* The instances load builds from the entries of a file take the default
\* port of their template when the entry names no port.
LoadDefaultsPort(file) ==
    Load(file).ok =>
        \A id \in DOMAIN file.instances :
            ~IsSome(file.instances[id].port) =>
                Load(file).instances[id].port
                    = file.templates[file.instances[id].template].default_port

\* C24: an instance created without an explicit port gets the default_port
\* of its template: the instance built by UsmCore::create_instance and by
\* the POST /api/instances handler, which is the one they add, and the
\* instances ConfigManager::load builds.
C24_DefaultPortAssigned ==
    [][/\ \A p \in Tasks :
             /\ (/\ task[p].pc \in {"ci_template", "ci_multi", "hci_template"}
                 /\ ~IsSome(task[p].port)
                 /\ task'[p].pc \in {"ci_add", "hci_add"})
                   => Unwrap(task'[p].inst).port = templates[task[p].tid].default_port
             /\ (/\ task[p].pc \in {"ci_add", "hci_add"}
                 /\ task[p].id \notin DOMAIN instances
                 /\ task[p].id \in DOMAIN instances')
                   => instances'[task[p].id] = Unwrap(task[p].inst)
       /\ \A file \in ConfigFiles \cup {BulkConfigFile} : LoadDefaultsPort(file)]_vars

HttpOps ==
    {"http_create_template", "http_create_instance", "http_start", "http_stop",
     "http_restart"}

\* C25: an HTTP handler answers 404 for an unknown instance id, 400 for a
\* template that is not registered, 409 for a duplicate identifier or port
\* (of an instance or of a template), 500 for a failed monitor call, and a
\* failing response leaves the registries as they were.
C25_HttpStatusMapping ==
    [][\A p \in Tasks :
         (Returns(p) /\ task[p].op \in HttpOps) =>
            LET f == task[p]
                res == task'[p].res
            IN /\ res # "200" => (templates' = templates /\ instances' = instances)
               /\ (f.pc \in {"hs_get", "hp_get", "hr_get", "hr_get2"}
                     /\ f.id \notin DOMAIN instances) => res = "404"
               /\ res = "404" => f.id \notin DOMAIN instances
               /\ (f.pc = "hct_register" /\ f.tid \in DOMAIN templates) => res = "409"
               /\ (f.pc = "hci_add" /\ ~RegistryAdd(instances, Unwrap(f.inst)).ok)
                     => res = "409"
               /\ (f.pc = "hci_template" /\ f.tid \notin DOMAIN templates)
                     => res = "400"
               /\ (f.pc \in {"hs_template", "hp_template", "hr_template", "hr_template2"}
                     /\ instances[f.id].template_id \notin DOMAIN templates)
                     => res = "400"
               /\ (f.pc \in {"hs_monitor", "hp_monitor", "hr_start_monitor"}
                     /\ res # "200") => res = "500"]_vars

\* C26: the HTTP start handler, finding the instance Running, returns 200
\* at once: it has made no monitor call, publishes no event and leaves the
\* registry (status, pid and started_at included) as it is.
C26_HttpStartOfRunningIsNoOp ==
    [][\A p \in Tasks :
         (/\ task[p].op = "http_start" /\ task[p].pc = "hs_get"
          /\ task'[p] # task[p]
          /\ task[p].id \in DOMAIN instances
          /\ instances[task[p].id].status = Running)
            => /\ Returns(p)
               /\ task'[p].res = "200"
               /\ task[p].calls = <<>>
               /\ events' = events
               /\ instances' = instances]_vars

\* Two requests served one after the other: the first started the instance,
\* the second, an HTTP start of it, returned 200 with nothing changed.
C26_Witness ==
    /\ opsLeft = 0 /\ now = 2
    /\ \A p \in Tasks : task[p].pc = "idle"
    /\ task[1].op = "http_start" /\ task[1].res = "200"
    /\ \A p \in Tasks \ {1} : task[p].op = "none"
    /\ task[1].id \in DOMAIN instances
    /\ instances[task[1].id].status = Running
    /\ instances[task[1].id].started_at = Some(1)
    /\ Len(events) = 1

\* The file after save_templates and save_instances of the registries.
SavedFile == SaveInstancesInto(SaveTemplatesInto(disk, templates), instances)

\* The fields of an instance that the file keeps.
Persisted(i) ==
    [id |-> i.id, template_id |-> i.template_id, port |-> i.port, tags |-> i.tags,
     created_at |-> i.created_at, created_via |-> i.created_via]

\* C27: the registries, saved and loaded back (now or later), come back with
\* the same templates and with the same instances in every persisted field,
\* creation time and origin included, each instance Stopped with no pid and
\* no started_at.
C27_SaveLoadRoundTrip ==
    \A t \in {now, now + 1} :
        LET r == LoadAt(SavedFile, t)
        IN r.ok =>
              /\ r.templates = templates
              /\ DOMAIN r.instances = DOMAIN instances
              /\ \A id \in DOMAIN instances :
                    /\ Persisted(r.instances[id]) = Persisted(instances[id])
                    /\ r.instances[id].status = Stopped
                    /\ r.instances[id].pid = None
                    /\ r.instances[id].started_at = None

(***************************************************************************)
(* Properties of the process monitor, under MonSpec.                       *)
(***************************************************************************)
StartOps == {"start_process", "start_process_with_port"}

\* The step in which the monitor's call returns.
MonReturns == mcall.pc # "idle" /\ mcall'.pc = "idle"

\* C11: macOS start_process_with_port.  No capture file, or contents that
\* are not a number, give captured PID 0.  A captured PID that is non-zero
\* and running is returned, without the port being consulted; otherwise,
\* with a port, the PID found on the port is returned if it is running;
\* otherwise the call fails.  A returned PID was running at the check.
C11_StartResultDecision ==
    [][/\ (/\ mcall.pc = "poll" /\ mcall'.pc = "verify"
           /\ \/ ~IsSome(sys.pidfile)
              \/ ~IsSome(Unwrap(sys.pidfile).text))
             => mcall'.pid = 0
       /\ (mcall.pc = "verify" /\ mcall'.pc = "idle")
             => IF mcall.pid > 0 /\ IsRunning(mcall.pid)
                THEN mcall'.ret = Ok(mcall.pid) /\ mcall'.how = "captured"
                ELSE IF /\ IsSome(mcall.port) /\ IsSome(mcall'.found)
                        /\ IsRunning(Unwrap(mcall'.found))
                THEN mcall'.ret = Ok(Unwrap(mcall'.found)) /\ mcall'.how = "port"
                ELSE mcall'.ret = Err
       /\ (MonReturns /\ sys.os = "macos" /\ mcall.op \in StartOps /\ mcall'.ret # Err)
             => IsRunning(Unwrap(mcall'.ret).pid)]_vars

\* A call returned the PID found on the port after its captured PID had died.
C11_Witness ==
    /\ mcall.pc = "idle" /\ mcall.op = "start_process_with_port"
    /\ mcall.how = "port" /\ mcall.pid > 0
    /\ mcall.ret = Ok(Unwrap(mcall.found))
    /\ mcall.ret # Ok(mcall.pid)

\* C12: a PID that a call read from the capture file was written by the
\* wrapper shell of that same call, and no capture file remains once a call
\* has returned.
C12_CaptureFilePrivate ==
    /\ (mcall.op \in StartOps /\ mcall.pid > 0) => mcall.by = mcall.n
    /\ (mcall.pc = "idle" /\ mcall.op \in StartOps) => sys.pidfile = None

\* C13: on both operating systems a start call returns only a PID whose
\* is_running check succeeded after the verification window: the captured
\* PID, or the PID found by port when a port was supplied.
C13_SameStartContract ==
    (mcall.pc = "idle" /\ mcall.op \in StartOps /\ mcall.ret # Err)
        => /\ mcall.how \in {"captured", "port"}
           /\ mcall.how = "port" => IsSome(mcall.port)

\* C14: kill_process sends SIGTERM first; it sends SIGKILL exactly when the
\* SIGTERM command ran and reported failure, and never before or without
\* that.  (When /bin/kill cannot be run at all, the call returns the error
\* and sends nothing more.)
C14_KillEscalation ==
    mcall.op = "kill_process" =>
        /\ Len(mcall.sigs) <= 2
        /\ mcall.sigs # <<>> => mcall.sigs[1].sig = "TERM"
        /\ Len(mcall.sigs) = 2 =>
              mcall.sigs[2].sig = "KILL" /\ mcall.sigs[1].out = "fail"
        /\ mcall.pc = "idle" =>
              /\ mcall.sigs # <<>>
              /\ mcall.sigs[1].out = "fail" => Len(mcall.sigs) = 2
        /\ mcall.pc = "kill" => Len(mcall.sigs) = 1

\* A kill that escalated has returned, and so has one that did not.
C14_Witness ==
    /\ mcall.pc = "idle" /\ mcall.op = "kill_process"
    /\ Len(mcall.sigs) = 2
    /\ mcall.ret = Ok(mcall.target)

(***************************************************************************)
(* Properties of the bulk tag operations, under BulkSpec.                  *)
(***************************************************************************)
\* The steps of start_instance / stop_instance a bulk operation is inside.
BulkCallPcs ==
    {"start_get", "start_template", "start_monitor", "start_update",
     "stop_get", "stop_template", "stop_monitor"}

\* C18: start_by_tags and stop_by_tags collect, in some order and each once,
\* the instances that carry one of the given tags when the registry is read;
\* they call start_instance / stop_instance for each collected id in turn,
\* whatever the earlier calls returned, push one result per call, and
\* return when there is one result for every collected id.
C18_OneResultPerTagged ==
    [][\A p \in Tasks :
         task[p].op \in BulkOps =>
            /\ (task[p].pc = "bulk_match" /\ task'[p] # task[p])
                  => /\ task'[p].todo \in Orders(Matching(instances, task[p].tags))
                     /\ task'[p].results = <<>>
                     /\ task'[p].pc = "bulk_loop"
            /\ (task[p].pc \notin {"idle", "bulk_match"} /\ task'[p].pc # "idle")
                  => task'[p].todo = task[p].todo
            /\ (task[p].pc = "bulk_loop" /\ task'[p] # task[p])
                  => IF Len(task[p].results) < Len(task[p].todo)
                     THEN /\ task'[p].id = task[p].todo[Len(task[p].results) + 1]
                          /\ task'[p].pc = IF task[p].op = "start_by_tags"
                                           THEN "start_get" ELSE "stop_get"
                          /\ task'[p].results = task[p].results
                     ELSE /\ Returns(p)
                          /\ \A i \in 1..Len(task[p].todo) :
                                task[p].results[i].id = task[p].todo[i]
            /\ (task[p].pc \in BulkCallPcs /\ task'[p] # task[p])
                  => \/ /\ task'[p].pc \in BulkCallPcs
                        /\ task'[p].results = task[p].results
                        /\ task'[p].id = task[p].id
                     \/ /\ task'[p].pc = "bulk_loop"
                        /\ Len(task'[p].results) = Len(task[p].results) + 1
                        /\ SubSeq(task'[p].results, 1, Len(task[p].results))
                              = task[p].results
                        /\ task'[p].results[Len(task'[p].results)].id = task[p].id
            /\ Returns(p) => /\ task[p].pc = "bulk_loop"
                             /\ Len(task[p].results) = Len(task[p].todo)]_vars

\* A bulk operation has a result for each of two tagged instances, and the
\* call for the second succeeded after the call for the first had failed.
C18_Witness ==
    \E p \in Tasks :
        /\ task[p].op \in BulkOps /\ task[p].pc = "bulk_loop"
        /\ Len(task[p].todo) = 2 /\ Len(task[p].results) = 2
        /\ task[p].results[1].res # "ok"
        /\ task[p].results[2].res = "ok"

(***************************************************************************)
(* Properties of the event bus, under BusSpec.                             *)
(***************************************************************************)
\* C20: a send returns the number of receivers that exist when it is made
\* (0 when there is none) and always returns a number; after a send with
\* receivers, the event is the newest retained event and every one of
\* those receivers is positioned at or before it.
C20_SendCountsSubscribers ==
    [][bus'.left < bus.left =>
         /\ bus'.ret = Some(Cardinality(DOMAIN bus.rx))
         /\ IsSome(bus'.sent)
         /\ DOMAIN bus'.rx = DOMAIN bus.rx
         /\ DOMAIN bus.rx # {} =>
               /\ bus'.buf # <<>>
               /\ bus'.buf[Len(bus'.buf)] = Unwrap(bus'.sent)
               /\ \A r \in DOMAIN bus.rx :
                     /\ bus'.rx[r] <= bus'.tail - 1
                     /\ bus'.tail - 1 >= BusHead(bus')]_vars

\* A send to two subscribers returned 2, and a subscriber has received
\* the event that was sent.
C20_Witness ==
    /\ bus.ret = Some(2)
    /\ Cardinality(DOMAIN bus.rx) = 2
    /\ IsSome(bus.recv)
    /\ Unwrap(bus.recv).event = bus.sent
    /\ \E r \in DOMAIN bus.rx : bus.rx[r] = bus.tail

\* The position a receiver is at after the recv recorded as g.
After(g) == IF IsSome(g.event) THEN g.pos + 1 ELSE g.pos

\* The position receiver r of channel b was at before its i-th recv.
Before(b, r, i) == IF i = 1 THEN b.since[r] ELSE After(b.got[r][i - 1])

\* What receiver r of channel b has received is consistent with what was
\* stored: nothing from before it subscribed, each event as it was stored,
\* each recv continuing where the one before ended, a gap only forwards.
HandleView(b, r) ==
    /\ \A i \in 1..Len(b.got[r]) :
          LET g == b.got[r][i]
          IN /\ g.pos >= b.since[r]
             /\ IF IsSome(g.event)
                THEN /\ g.pos = Before(b, r, i)
                     /\ g.pos < b.tail
                     /\ Unwrap(g.event) = b.log[g.pos + 1]
                ELSE /\ g.lagged > 0
                     /\ g.pos = Before(b, r, i) + g.lagged
    /\ b.rx[r] = Before(b, r, Len(b.got[r]) + 1)
    /\ b.rx[r] <= b.tail

\* Receiver r has never been told of a gap.
NeverLagged(b, r) == \A i \in 1..Len(b.got[r]) : IsSome(b.got[r][i].event)

\* C21: a receiver observes no event stored before it subscribed; while it
\* has not lagged, its recv calls return the events stored since, one
\* position after the other, each with the payload that was stored (hence
\* the one every other receiver gets for that position); and a recv or a
\* drop of one receiver changes neither the channel's events nor any other
\* receiver's position or record.
C21_HandlesIndependent ==
    [][/\ \A r \in DOMAIN bus'.rx :
             /\ HandleView(bus', r)
             /\ NeverLagged(bus', r) =>
                   \A i \in 1..Len(bus'.got[r]) :
                       bus'.got[r][i] = Received(bus'.since[r] + i - 1,
                                                 bus'.log[bus'.since[r] + i])
       /\ (bus'.tail = bus.tail /\ bus'.left = bus.left) =>
             /\ bus'.buf = bus.buf /\ bus'.log = bus.log
             /\ \A r, q \in DOMAIN bus.rx \cap DOMAIN bus'.rx :
                   (r # q /\ bus'.got[r] # bus.got[r]) =>
                       /\ bus'.got[q] = bus.got[q]
                       /\ bus'.rx[q] = bus.rx[q]
                       /\ bus'.since[q] = bus.since[q]]_vars

\* Two receivers, one subscribed before the first event and one after it:
\* the first has received both events, the second only the second event,
\* the same one the first received.
C21_Witness ==
    \E r, q \in DOMAIN bus.rx :
        /\ bus.since[r] = 0 /\ bus.since[q] = 1 /\ bus.tail = 2
        /\ Len(bus.got[r]) = 2 /\ Len(bus.got[q]) = 1
        /\ bus.got[q][1] = bus.got[r][2]
        /\ bus.log[1] # bus.log[2]

Max(a, b) == IF a >= b THEN a ELSE b

\* C22: the channel keeps at most BusCapacity events, so no receiver has
\* more than BusCapacity events waiting; a receiver that fell behind the
\* retained events is told, by its next recv, how many events it lost, and
\* is moved to the oldest retained event, from which its following recvs
\* continue in order; and a send can be made in every state, however far
\* behind the receivers are.
C22_BoundedLagReported ==
    /\ Len(bus.buf) <= BusCapacity
    /\ bus.tail = Len(bus.log)
    /\ \A r \in DOMAIN bus.rx :
          /\ bus.tail - Max(bus.rx[r], BusHead(bus)) <= BusCapacity
          /\ HandleView(bus, r)
          /\ \A i \in 1..Len(bus.got[r]) :
                LET g == bus.got[r][i]
                IN ~IsSome(g.event) =>
                      /\ g.lagged = g.pos - Before(bus, r, i)
                      /\ i < Len(bus.got[r]) =>
                            bus.got[r][i + 1] = Received(g.pos, bus.log[g.pos + 1])
    /\ bus.left > 0 => ENABLED BusSend

\* A receiver that missed one of three events: its first recv reported a
\* gap of one, the next two returned the two retained events in order.
C22_Witness ==
    \E r \in DOMAIN bus.rx :
        /\ bus.since[r] = 0 /\ bus.tail = 3
        /\ Len(bus.got[r]) = 3
        /\ bus.got[r][1] = Gap(1, 1)
        /\ bus.got[r][2] = Received(1, bus.log[2])
        /\ bus.got[r][3] = Received(2, bus.log[3])

(***************************************************************************)
(* Properties of the WebSocket session, under WsSpec.                      *)
(***************************************************************************)
\* C23: a session that forwards events receives from the event bus every
\* event published after its snapshot of the instances was read: its
\* subscription starts at the event position the snapshot was read at.
C23_SnapshotThenEveryEvent ==
    \A p \in Tasks :
        (task[p].op = "websocket" /\ task[p].pc = "ws_loop")
            => task[p].from = Unwrap(task[p].snap).at

(***************************************************************************)
(* Properties of the registries, under RegSpec.                            *)
(***************************************************************************)
\* C28: register fails exactly when the template's identifier is already
\* registered, and then changes nothing; otherwise get returns the template
\* and the other templates are as before.  remove fails exactly when the
\* identifier is absent, and then changes nothing; otherwise get returns
\* nothing for it and the other templates are as before.
C28_TemplateRegistryContract ==
    [][LET f == task'[1]
       IN /\ f.op = "template_register" =>
                LET t == Unwrap(f.tmpl)
                IN /\ f.res # "ok" <=> t.id \in DOMAIN templates
                   /\ f.res # "ok" => templates' = templates
                   /\ f.res = "ok" =>
                         /\ TemplateGet(templates', t.id) = Some(t)
                         /\ Del(templates', t.id) = templates
          /\ f.op = "template_remove" =>
                /\ f.res # "ok" <=> f.tid \notin DOMAIN templates
                /\ f.res # "ok" => templates' = templates
                /\ f.res = "ok" =>
                      /\ TemplateGet(templates', f.tid) = None
                      /\ templates' = Del(templates, f.tid)]_vars

\* A register of a different template under a registered identifier has
\* failed, and get still returns the template registered first.
C28_Witness ==
    /\ task[1].op = "template_register" /\ task[1].res = "err_conflict"
    /\ task[2].op = "template_register" /\ task[2].res = "ok"
    /\ task[1].tid = task[2].tid
    /\ task[1].tmpl # task[2].tmpl
    /\ TemplateGet(templates, task[1].tid) = task[2].tmpl

\* C29: add fails exactly when the instance's identifier exists or its port
\* is the port of an instance in the registry, and then changes nothing;
\* otherwise the instance is stored under its identifier and the others are
\* as before.  remove of an existing identifier takes the instance, and
\* with it its hold on the port, out of the registry.
C29_InstanceRegistryContract ==
    [][LET f == task'[1]
       IN /\ f.op = "instance_add" =>
                LET i == Unwrap(f.inst)
                IN /\ f.res # "ok" <=>
                         \/ i.id \in DOMAIN instances
                         \/ \E x \in DOMAIN instances : instances[x].port = i.port
                   /\ f.res # "ok" => instances' = instances
                   /\ f.res = "ok" =>
                         /\ instances'[i.id] = i
                         /\ Del(instances', i.id) = instances
                         /\ \A x, y \in DOMAIN instances' :
                               instances'[x].port = instances'[y].port => x = y
          /\ f.op = "instance_remove" =>
                /\ f.res # "ok" <=> f.id \notin DOMAIN instances
                /\ f.res # "ok" => instances' = instances
                /\ f.res = "ok" => instances' = Del(instances, f.id)]_vars

\* An instance was removed and an instance with another identifier was then
\* added on the port the removed one had held.
C29_Witness ==
    /\ task[2].op = "instance_remove" /\ task[2].res = "ok"
    /\ task[1].op = "instance_add" /\ task[1].res = "ok"
    /\ task[1].id # task[2].id
    /\ Unwrap(task[1].inst).port = Unwrap(task[2].inst).port
    /\ task[1].id \in DOMAIN instances
    /\ task[2].id \notin DOMAIN instances

(***************************************************************************)
(* Properties of create_instance calls that do not overlap, under SeqSpec. *)
(***************************************************************************)
\* The instances of template tid in registry reg.
InstancesIn(reg, tid) == {i \in DOMAIN reg : reg[i].template_id = tid}

\* C30: when create_instance calls do not overlap, a call for a template
\* with supports_multiple = false that already has an instance fails with
\* a conflict, the registry and the published events unchanged; a call that
\* succeeds for such a template leaves its instance as the only one of the
\* template; a call for a template with supports_multiple = true, with a
\* free identifier and a free port, adds its instance, and a call that
\* returns success has published InstanceCreated for it.
C30_SingleInstanceSequential ==
    [][LET f == task[1]
           single == f.tid \in DOMAIN templates /\ ~templates[f.tid].supports_multiple
           multi == f.tid \in DOMAIN templates /\ templates[f.tid].supports_multiple
       IN f.op = "create_instance" =>
            /\ (/\ f.pc \in {"ci_template", "ci_multi"}
                /\ single
                /\ HasInstancesForTemplate(instances, f.tid))
                  => /\ instances' = instances
                     /\ events' = events
                     /\ task'[1].pc \in {"ci_multi", "idle"}
                     /\ task'[1].pc = "idle" => task'[1].res = "err_conflict"
            /\ (f.pc = "ci_template" /\ multi /\ f.id # "")
                  => task'[1].pc = "ci_add"
            /\ (/\ f.pc = "ci_add"
                /\ f.id \notin DOMAIN instances
                /\ FindByPort(instances, Unwrap(f.inst).port) = {})
                  => /\ instances' = Put(instances, f.id, Unwrap(f.inst))
                     /\ task'[1].pc = "save_read"
            /\ (Returns(1) /\ task'[1].res = "ok")
                  => /\ events' = Append(events, InstanceCreated(f.id, f.tid))
                     /\ f.id \in DOMAIN instances'
                     /\ single => InstancesIn(instances', f.tid) = {f.id}
            /\ (Returns(1) /\ task'[1].res # "ok") => events' = events]_vars

\* Two calls, one after the other, for a template with supports_multiple =
\* false: the first created its instance and published InstanceCreated,
\* the second, for a new identifier, is at the check that finds it.
C30_Witness ==
    /\ opsLeft = 0
    /\ task[1].op = "create_instance" /\ task[1].pc = "ci_multi"
    /\ task[1].id # "" /\ task[1].id \notin DOMAIN instances
    /\ ~templates[task[1].tid].supports_multiple
    /\ Cardinality(InstancesIn(instances, task[1].tid)) = 1
    /\ Cardinality(DOMAIN instances) = 1
    /\ Len(events) = 1
    /\ events[1].type = "instance_created"
    /\ events[1].instance_id \in DOMAIN instances

(***************************************************************************)
(* Properties of InstanceRegistry::update_status (StatusSpec).             *)
(***************************************************************************)
\* C31: a successful update_status(id, s, p) leaves the instance with status
\* s and pid p, and started_at set exactly when s is Running; an update from
\* Running to Running keeps the started_at recorded before; nothing else in
\* the registry changes; for an unknown id the call fails and the registry
\* is unchanged.
C31_UpdateStatusContract ==
    [][task'[1].op = "update_status" =>
        LET f == task'[1]
        IN IF f.id \in DOMAIN instances
           THEN /\ f.res = "ok"
                /\ DOMAIN instances' = DOMAIN instances
                /\ instances'[f.id].status = f.status
                /\ instances'[f.id].pid = f.pid
                /\ IsSome(instances'[f.id].started_at) <=> f.status = Running
                /\ instances[f.id].status = Running /\ f.status = Running
                      => instances'[f.id].started_at = instances[f.id].started_at
                /\ instances' = [instances EXCEPT ![f.id] =
                                    [@ EXCEPT !.status = instances'[f.id].status,
                                              !.pid = instances'[f.id].pid,
                                              !.started_at = instances'[f.id].started_at]]
           ELSE /\ f.res = "err_not_found"
                /\ instances' = instances]_vars

\* A second update to Running has been made one tick after the first: the
\* instance still carries the first update's time.
C31_Witness ==
    /\ task[1].op = "update_status"
    /\ task[1].res = "ok"
    /\ task[1].status = Running
    /\ now = 2
    /\ instances[task[1].id].started_at = Some(1)

(***************************************************************************)
(* Properties of the statuses the operations assign (Spec).                *)
(***************************************************************************)
\* C32: every loaded instance starts as Stopped, every instance that enters
\* the registry enters it as Stopped, and at every moment every instance's
\* status is Stopped or Running: no operation assigns Starting, Stopping,
\* Error or Unknown.
C32_OnlyStoppedOrRunning ==
    /\ \A i \in DOMAIN instances : instances[i].status = Stopped
    /\ [](\A i \in DOMAIN instances : instances[i].status \in {Stopped, Running})
    /\ [][\A i \in DOMAIN instances' \ DOMAIN instances :
              instances'[i].status = Stopped]_vars

\* Every request has returned, and an instance that was created by a request
\* has been started.
C32_Witness ==
    /\ \E i \in DOMAIN instances :
          instances[i].status = Running /\ instances[i].created_at > 0
    /\ \A p \in Tasks : task[p].pc = "idle"
    /\ opsLeft = 0

(***************************************************************************)
(* Properties of ServiceInstance::from_config (FromConfigSpec).            *)
(***************************************************************************)
\* C33: from_config fails when the instance identifier or the template
\* identifier is empty; otherwise it yields an instance with the given
\* identifier, template id and port (0 when no port is given), with status
\* Stopped, no pid and no started_at.
C33_FromConfigContract ==
    task[1].pc = "fc_done" =>
        LET f == task[1]
        IN IF f.id = "" \/ f.tid = ""
           THEN f.res = "err_validation" /\ f.inst = NoInstance
           ELSE /\ f.res = "ok"
                /\ IsSome(f.inst)
                /\ Unwrap(f.inst).id = f.id
                /\ Unwrap(f.inst).template_id = f.tid
                /\ Unwrap(f.inst).port = (IF IsSome(f.port) THEN Unwrap(f.port) ELSE 0)
                /\ Unwrap(f.inst).status = Stopped
                /\ Unwrap(f.inst).pid = None
                /\ Unwrap(f.inst).started_at = None

\* from_config has rejected a config whose only fault is the empty template
\* identifier.
C33_Witness ==
    /\ task[1].pc = "fc_done"
    /\ task[1].id # ""
    /\ task[1].tid = ""
    /\ task[1].res = "err_validation"

(***************************************************************************)
(* Properties of the StatusChanged events (Spec).                          *)
(***************************************************************************)
\* The positions of the StatusChanged events published for instance i.
StatusEventsOf(i) ==
    {k \in 1..Len(events) :
        events[k].type = "status_changed" /\ events[k].instance_id = i}

Quiescent == \A p \in Tasks : task[p].pc = "idle"

\* C34: at every quiescent state, the StatusChanged event published last for
\* an instance carries the status and the pid the registry holds for it.
C34_LastEventMatchesRegistry ==
    Quiescent =>
        \A i \in DOMAIN instances :
            StatusEventsOf(i) # {} =>
                LET k == CHOOSE x \in StatusEventsOf(i) :
                            \A y \in StatusEventsOf(i) : y <= x
                IN /\ events[k].status = instances[i].status
                   /\ events[k].pid = instances[i].pid

(***************************************************************************)
(* Properties of the two-phase operations (Spec).                          *)
(***************************************************************************)
\* Task p is between the stop phase and the second phase of a removal or a
\* restart of its instance.
BetweenPhases(p) ==
    \/ task[p].op = "remove_instance" /\ task[p].pc = "ri_remove"
    \/ task[p].op = "restart_instance" /\ task[p].pc \in {"restart_sleep", "start_get"}
    \/ task[p].op = "http_restart" /\ task[p].pc \in {"hr_sleep", "hr_get2"}

\* The stop attempt of task p's removal returned without a failed call.
StopSucceeded(p) ==
    task[p].calls = <<>> \/ task[p].calls[Len(task[p].calls)].res = "ok"

\* C35: between the phases of a remove_instance or a restart_instance no
\* other caller starts, stops or removes the instance; a removal whose stop step succeeded
\* does not remove a Running instance; a restart enters its start call only
\* for an instance that is still Stopped.
C35_TwoPhaseOperationsAtomic ==
    [][\A p \in Tasks :
         /\ (BetweenPhases(p) /\ task'[p] = task[p]
               /\ task[p].id \in DOMAIN instances)
               => /\ task[p].id \in DOMAIN instances'
                  /\ instances'[task[p].id] = instances[task[p].id]
         /\ (task[p].op = "remove_instance" /\ task[p].pc = "ri_remove"
               /\ task'[p].pc = "save_read" /\ StopSucceeded(p))
               => instances[task[p].id].status # Running
         /\ (task[p].op \in {"restart_instance", "http_restart"}
               /\ task[p].pc \in {"start_template", "hr_template2"}
               /\ task'[p].pc \in {"start_monitor", "hr_start_monitor"})
               => instances[task[p].id].status = Stopped]_vars

(***************************************************************************)
(* Properties of a failing monitor call (Spec).                            *)
(***************************************************************************)
\* C36: when the monitor's call inside start_instance or stop_instance
\* fails, the call returns the failure to its caller (remove_instance takes
\* it and goes on to the removal), no instance is changed and no event is
\* published; otherwise start_instance goes on to its update, and
\* stop_instance records Stopped and publishes the instance's StatusChanged
\* event.
C36_FailedMonitorCallChangesNothing ==
    [][\A p \in Tasks :
         /\ (task[p].pc = "start_monitor" /\ task'[p] # task[p])
               => \/ /\ task'[p].pc = "start_update"
                     /\ IsSome(task'[p].pid)
                  \/ /\ task'[p].pc = "idle"
                     /\ task'[p].res = "err_process"
                     /\ instances' = instances
                     /\ events' = events
         /\ (task[p].pc = "stop_monitor" /\ task'[p] # task[p])
               => \/ /\ instances' = SetStatus(instances, task[p].id, Stopped, None, None)
                     /\ events' = Append(events, StatusChanged(task[p].id, Stopped, None))
                     /\ task'[p].res # "err_process"
                  \/ /\ instances' = instances
                     /\ events' = events
                     /\ IF task[p].op = "remove_instance"
                        THEN /\ task'[p].pc = "ri_remove"
                             /\ task'[p].calls[Len(task'[p].calls)].res = "err"
                        ELSE /\ task'[p].pc = "idle"
                             /\ task'[p].res = "err_process"]_vars

\* stop_instance has returned the monitor's failure: its instance is still
\* Running with its pid and start time, and the start's event is the only one.
C36_Witness ==
    \E p \in Tasks :
        /\ task[p].pc = "idle"
        /\ task[p].op = "stop_instance"
        /\ task[p].res = "err_process"
        /\ task[p].id \in DOMAIN instances
        /\ instances[task[p].id].status = Running
        /\ IsSome(instances[task[p].id].pid)
        /\ IsSome(instances[task[p].id].started_at)
        /\ Len(events) = 1

(***************************************************************************)
(* Properties of the failing mutations (Spec).                             *)
(***************************************************************************)
\* The operations that change the set of templates or of instances.
MutationOps ==
    {"create_instance", "remove_instance", "register_template", "remove_template"}

\* The first request, served alone, was a mutation and has returned an error.
FirstMutationFailed ==
    /\ opsLeft = MaxOps - 1
    /\ Quiescent
    /\ task[1].op \in MutationOps
    /\ task[1].res # "ok"

\* C37: when a create_instance, remove_instance, register_template or
\* remove_template that ran alone on the loaded configuration has returned
\* an error, the registries hold exactly what was loaded from the (unchanged)
\* file and no event has been published.
C37_FailedMutationChangesNothing ==
    FirstMutationFailed =>
        /\ templates = Load(disk).templates
        /\ instances = Load(disk).instances
        /\ events = <<>>

(***************************************************************************)
(* Properties of the lock order (LockSpec).                                *)
(***************************************************************************)
\* C38: no state is reached in which requests are in flight and none of
\* them, nor any new request, can take a step.
C38_NoLockCycle ==
    (\E p \in LockTasks : task[p].pc # "idle") => ENABLED LockNext

(***************************************************************************)
(* Properties of the persisted configuration (Spec).                       *)
(***************************************************************************)
\* Every task has served a mutation, all requests have been issued and have
\* returned successfully; the second task is used only while the first is
\* busy, so the mutations overlapped.
MutationsCompleted ==
    /\ opsLeft = 0
    /\ Quiescent
    /\ \A p \in Tasks : task[p].op \in MutationOps /\ task[p].res = "ok"

\* The file holds exactly the templates and the instances of the registries.
FileMatchesRegistries ==
    /\ DOMAIN disk.templates = DOMAIN templates
    /\ \A id \in DOMAIN templates :
          disk.templates[id] = TemplateToFile(templates[id])
    /\ DOMAIN disk.instances = DOMAIN instances
    /\ \A i \in DOMAIN instances :
          disk.instances[i].template = instances[i].template_id

\* C39: once overlapping mutations have all completed successfully, the
\* config file holds exactly the templates and instances of the registries.
C39_FileMatchesAfterMutations ==
    MutationsCompleted => FileMatchesRegistries

(***************************************************************************)
(* Properties of the recorded pid (Spec).                                  *)
(***************************************************************************)
\* C40: the pid recorded for a Running instance is not replaced while the
\* instance stays Running: a start of a Running instance does not record
\* another process in place of the one it tracks.
C40_RunningPidNotReplaced ==
    [][\A i \in DOMAIN instances :
         (instances[i].status = Running /\ i \in DOMAIN instances'
            /\ instances'[i].status = Running)
            => instances'[i].pid = instances[i].pid]_vars

====
